---- MODULE Spec2Model ----
(***************************************************************************)
(* PigeonMatch: the VectorClock logical clock and the CollaborationEngine  *)
(* that reconciles peer state with it.                                     *)
(*                                                                         *)
(* A VectorClock wraps a Map<string, number>; it is modelled as a function *)
(* whose DOMAIN is the set of keys the Map holds (a key may be present     *)
(* with counter 0, which differs from an absent key only for size and      *)
(* getPeerIds).  A state blob is a plain object: a function from its keys. *)
(* A clock on the wire (toJSON) is a JSON object: a set of <<key, value>>  *)
(* entries with distinct keys.                                             *)
(***************************************************************************)
EXTENDS Integers, FiniteSets, Sequences, TLC

VARIABLES
    conflictResolution, \* config.conflictResolution, fixed by the constructor
    mesh,               \* whether a mesh was passed to the constructor
    localClock,         \* CollaborationEngine.localClock
    localState,         \* CollaborationEngine.localState
    peerClocks,         \* CollaborationEngine.peerClocks (Map: DOMAIN = keys)
    peerStates,         \* CollaborationEngine.peerStates (Map: DOMAIN = keys)
    peers,              \* CollaborationEngine.peers, its keys in insertion order
    syncTimer,          \* whether CollaborationEngine.syncTimer holds a timer
    listeners,          \* whether the listeners the application attached with
                        \* on() are still attached to the engine
    hist,               \* which removed peers have not been heard from since
    aliased,            \* the peers whose stored clock is the very object the
                        \* caller passed to addPeer, and still holds
    log,                \* what the last operation emitted or sent, in order
    last,               \* the last operation and its input
    clkA, clkB,         \* VectorClock laws: two clocks
    clkLink,            \* VectorClock laws: how clkB relates to clkA
    clkRes,             \* VectorClock laws: the last call and its result
    config,             \* MatchmakingEngine.config: minPeers, maxPeers, matchCriteria
    matchPeers,         \* MatchmakingEngine.peers (Map: DOMAIN = keys)
    matches,            \* MatchmakingEngine.matches (Map: DOMAIN = keys)
    matchQueue,         \* MatchmakingEngine.matchQueue
    matchCounter,       \* MatchmakingEngine.matchCounter
    matchLog,           \* what the last MatchmakingEngine call emitted, in order
    matchLast           \* the last MatchmakingEngine call, its input and result

vars == <<conflictResolution, mesh, localClock, localState, peerClocks,
          peerStates, peers, syncTimer, listeners, hist, aliased, log, last,
          clkA, clkB, clkLink, clkRes, config, matchPeers, matches,
          matchQueue, matchCounter, matchLog, matchLast>>

engineVars == <<conflictResolution, mesh, localClock, localState, peerClocks,
                peerStates, peers, syncTimer, listeners, hist, aliased, log,
                last>>

clockVars == <<clkA, clkB, clkLink, clkRes>>

matchVars == <<config, matchPeers, matches, matchQueue, matchCounter, matchLog,
               matchLast>>

(***************************************************************************)
(* Bounds and input sets                                                   *)
(***************************************************************************)
MaxCounter == 1

LocalId == "me"
Remote == {"p", "q"}
Ids == {LocalId} \cup Remote

EmptyMap == [k \in {} |-> 0]

\* two clocks built by two constructor calls: neither is a clone of the
\* other and each wraps a Map of its own
Unlinked == [cloned |-> FALSE, sameMap |-> FALSE]

\* every Map<string, number> over the keys K with counters 0..n
ClocksOver(K, n) == UNION {[S -> 0..n] : S \in SUBSET K}

(***************************************************************************)
(* types.ts                                                                *)
(***************************************************************************)
VECTOR_CLOCK == "vector_clock"
LAST_WRITE_WINS == "last_write_wins"
CUSTOM == "custom"
ConflictResolutionStrategy == {VECTOR_CLOCK, LAST_WRITE_WINS, CUSTOM}

STATE_UPDATE == "state:update"
STATE_REQUEST == "state:request"
STATE_RESPONSE == "state:response"
VECTOR_CLOCK_SYNC == "vector:sync"
PEER_HEARTBEAT == "peer:heartbeat"
MessageType == {STATE_UPDATE, STATE_REQUEST, STATE_RESPONSE, VECTOR_CLOCK_SYNC,
                PEER_HEARTBEAT}

\* MatchmakingEvent
PEER_JOINED == "peer:joined"
PEER_LEFT == "peer:left"
MATCH_FOUND == "match:found"
MATCH_FAILED == "match:failed"
MATCH_READY == "match:ready"
MATCH_DISBANDED == "match:disbanded"

\* CollaborationEvent
STATE_UPDATED == "state:updated"
CONFLICT_DETECTED == "conflict:detected"
CONFLICT_RESOLVED == "conflict:resolved"
SYNC_REQUESTED == "sync:requested"
SYNC_COMPLETED == "sync:completed"

(***************************************************************************)
(* VectorClock                                                             *)
(***************************************************************************)
AFTER == 1
BEFORE == -1
CONCURRENT == 0

\* get(peerId): this.clock.get(peerId) || 0
Get(c, id) == IF id \in DOMAIN c THEN c[id] ELSE 0

\* variant: every entry is raised along with peerId's
IncrementAll(c, id) == [k \in DOMAIN c \cup {id} |-> Get(c, k) + 1]

\* increment(peerId)
Increment(c, id) ==
    [k \in DOMAIN c \cup {id} |-> IF k = id THEN Get(c, id) + 1 ELSE c[k]]

MathMax(a, b) == IF a >= b THEN a ELSE b

\* variant: every entry of other is copied over this clock's entry
MergeOverwrite(c, other) ==
    [k \in DOMAIN c \cup DOMAIN other |->
        IF k \in DOMAIN other THEN other[k] ELSE c[k]]

\* variant: every entry of other is added to this clock's entry
MergeAdd(c, other) ==
    [k \in DOMAIN c \cup DOMAIN other |->
        IF k \in DOMAIN other THEN Get(c, k) + other[k] ELSE c[k]]

\* variant: only the entries this clock already holds are raised
MergeOwnKeys(c, other) ==
    [k \in DOMAIN c |->
        IF k \in DOMAIN other THEN MathMax(c[k], other[k]) ELSE c[k]]

\* merge(other): every entry of other is set to the maximum; other is only read
Merge(c, other) ==
    [k \in DOMAIN c \cup DOMAIN other |->
        IF k \in DOMAIN other THEN MathMax(Get(c, k), other[k]) ELSE c[k]]

\* the two flags compare() has set when its loop over allPeerIds ends
ThisGreater(c, other) ==
    \E k \in DOMAIN c \cup DOMAIN other : Get(c, k) > Get(other, k)

\* variant: the loop runs over this clock's own keys only
OtherGreaterOwnKeys(c, other) ==
    \E k \in DOMAIN c : Get(c, k) < Get(other, k)

OtherGreater(c, other) ==
    \E k \in DOMAIN c \cup DOMAIN other : Get(c, k) < Get(other, k)

\* variant: AFTER is returned without looking at otherGreater
CompareThisFirst(c, other) ==
    IF ThisGreater(c, other) THEN AFTER
    ELSE IF OtherGreater(c, other) THEN BEFORE
    ELSE CONCURRENT

\* compare(other)
Compare(c, other) ==
    IF ThisGreater(c, other) /\ ~OtherGreater(c, other) THEN AFTER
    ELSE IF OtherGreater(c, other) /\ ~ThisGreater(c, other) THEN BEFORE
    ELSE CONCURRENT

HappensBefore(c, other) == Compare(c, other) = -1

\* variant: every result but -1 counts as after
HappensAfterOrConcurrent(c, other) == Compare(c, other) # -1

HappensAfter(c, other) == Compare(c, other) = 1

IsConcurrent(c, other) == Compare(c, other) = 0

\* set(peerId, timestamp)
Set(c, id, timestamp) ==
    [k \in DOMAIN c \cup {id} |-> IF k = id THEN timestamp ELSE c[k]]

\* clone(): a new Map with the same entries
Clone(c) == [k \in DOMAIN c |-> c[k]]

\* variant: clone() hands back the clock it was called on
CloneIsThis == TRUE

\* whether the clock clone() returns wraps the Map of the original: it is
\* new VectorClock(new Map(this.clock)), a new object around a new Map
CloneSharesMap == FALSE

\* the key a plain object does not take: obj["__proto__"] = timestamp goes to
\* the accessor Object.prototype.__proto__, which drops a number, and obj
\* gets no property
PROTO == "__proto__"

\* toJSON(): obj = {}, then obj[peerId] = timestamp for every entry of the Map
ToJSON(c) == {<<k, c[k]>> : k \in DOMAIN c \ {PROTO}}

\* fromJSON(obj): one Map key per entry of the object
FromJSON(obj) ==
    [k \in {e[1] : e \in obj} |-> (CHOOSE e \in obj : e[1] = k)[2]]

GetPeerIds(c) == DOMAIN c

(***************************************************************************)
(* CollaborationEngine.  The handlers are operators on the record e of the *)
(* engine's fields; e.log collects, in order, every emit and every call of *)
(* the mesh the handler makes.  Date.now() values (timestamp, detectedAt,  *)
(* resolvedAt, lastSeen) are advisory and left out.                        *)
(***************************************************************************)
Null == [null |-> 0]
NoRecipient == ""
MESSAGE_SEND == "message:send"
MESH_SEND_DIRECT == "mesh.sendDirectMessage"
MESH_SEND == "mesh.sendMessage"

\* what VectorClock.fromJSON(undefined) throws: Object.entries(undefined)
TYPE_ERROR == "TypeError"

\* message.vectorClock is there (a message without one reads undefined)
HasClock(message) == "vectorClock" \in DOMAIN message

\* the handler throws: none of its later statements run, nothing catches
\* the error on the way, and the caller of handleMessage receives it
Throws(e, error) ==
    [e EXCEPT !.log = Append(@, [type |-> error, data |-> Null,
                                 localState |-> e.localState,
                                 localClock |-> e.localClock])]

MapSet(m, k, v) == [x \in DOMAIN m \cup {k} |-> IF x = k THEN v ELSE m[x]]

MapDelete(m, k) == [x \in DOMAIN m \ {k} |-> m[x]]

InSeq(s, x) == \E i \in 1..Len(s) : s[i] = x

\* { ...a, ...b }
ObjectSpread(a, b) ==
    [k \in DOMAIN a \cup DOMAIN b |-> IF k \in DOMAIN b THEN b[k] ELSE a[k]]

Engine ==
    [conflictResolution |-> conflictResolution, mesh |-> mesh,
     localClock |-> localClock, localState |-> localState,
     peerClocks |-> peerClocks, peerStates |-> peerStates, peers |-> peers,
     syncTimer |-> syncTimer, listeners |-> listeners, aliased |-> aliased,
     log |-> << >>]

\* new CollaborationEngine(config): config.conflictResolution || VECTOR_CLOCK;
\* startSyncTimer() leaves the handle of setInterval in syncTimer
Constructor(strategyArg, meshArg) ==
    [conflictResolution |-> IF strategyArg = "" THEN VECTOR_CLOCK ELSE strategyArg,
     mesh |-> meshArg,
     localClock |-> EmptyMap, localState |-> EmptyMap,
     peerClocks |-> EmptyMap, peerStates |-> EmptyMap, peers |-> << >>,
     syncTimer |-> TRUE, listeners |-> TRUE, aliased |-> {}, log |-> << >>]

\* one entry of the log: what was emitted or called, and the engine's local
\* state and clock as they are at that moment
Logged(e, type, data) ==
    [e EXCEPT !.log = Append(@, [type |-> type, data |-> data,
                                 localState |-> e.localState,
                                 localClock |-> e.localClock])]

\* this.emit(type, data)
Emit(e, type, data) == Logged(e, type, data)

\* sendMessage(message)
SendMessage(e, message) ==
    IF e.mesh
    THEN IF message.to # NoRecipient
         THEN Logged(e, MESH_SEND_DIRECT, message)
         ELSE Logged(e, MESH_SEND, message)
    ELSE Emit(e, MESSAGE_SEND, message)

\* broadcastMessage(message): the loop over this.peers.keys() from index i on
RECURSIVE BroadcastFrom(_, _, _)
BroadcastFrom(e, message, i) ==
    IF i > Len(e.peers) THEN e
    ELSE BroadcastFrom(
            IF e.peers[i] # LocalId
            THEN SendMessage(e, [message EXCEPT !.to = e.peers[i]])
            ELSE e,
            message, i + 1)

BroadcastMessage(e, message) == BroadcastFrom(e, message, 1)

\* variant: the argument replaces the local state
UpdateStateReplace(e, state) ==
    LET e1 == [e EXCEPT !.localClock = Increment(@, LocalId),
                        !.localState = state]
        message == [type |-> STATE_UPDATE, from |-> LocalId, to |-> NoRecipient,
                    payload |-> e1.localState,
                    vectorClock |-> ToJSON(e1.localClock)]
        e2 == BroadcastMessage(e1, message)
    IN  Emit(e2, STATE_UPDATED,
             [peerId |-> LocalId, state |-> e2.localState,
              vectorClock |-> e2.localClock])

\* variant: StateChanged is emitted before the broadcast
UpdateStateEmitFirst(e, state) ==
    LET e1 == [e EXCEPT !.localClock = Increment(@, LocalId),
                        !.localState = ObjectSpread(@, state)]
        message == [type |-> STATE_UPDATE, from |-> LocalId, to |-> NoRecipient,
                    payload |-> e1.localState,
                    vectorClock |-> ToJSON(e1.localClock)]
        e2 == Emit(e1, STATE_UPDATED,
                   [peerId |-> LocalId, state |-> e1.localState,
                    vectorClock |-> e1.localClock])
    IN  BroadcastMessage(e2, message)

\* updateState(state)
UpdateState(e, state) ==
    LET e1 == [e EXCEPT !.localClock = Increment(@, LocalId),
                        !.localState = ObjectSpread(@, state)]
        message == [type |-> STATE_UPDATE, from |-> LocalId, to |-> NoRecipient,
                    payload |-> e1.localState,
                    vectorClock |-> ToJSON(e1.localClock)]
        e2 == BroadcastMessage(e1, message)
    IN  Emit(e2, STATE_UPDATED,
             [peerId |-> LocalId, state |-> e2.localState,
              vectorClock |-> e2.localClock])

\* getPeerState(peerId): a one-element set, or {} for undefined
GetPeerState(e, peerId) ==
    IF peerId \in DOMAIN e.peerStates THEN {e.peerStates[peerId]} ELSE {}

\* getPeerVectorClock(peerId): a one-element set, or {} for undefined
GetPeerVectorClock(e, peerId) ==
    IF peerId \in DOMAIN e.peerClocks THEN {Clone(e.peerClocks[peerId])} ELSE {}

\* variant: identical clocks are taken for a repeated delivery, not a conflict
HasConflictUnlessSame(clock1, clock2) ==
    IsConcurrent(clock1, clock2) /\ clock1 # clock2

\* hasConflict(clock1, clock2)
HasConflict(clock1, clock2) == IsConcurrent(clock1, clock2)

\* variant: a later candidate takes over unless it happens before the winner
RECURSIVE VectorClockWinnerNotBefore(_, _, _)
VectorClockWinnerNotBefore(states, winningState, i) ==
    IF i > Len(states) THEN winningState
    ELSE VectorClockWinnerNotBefore(
            states,
            IF ~HappensBefore(states[i].vectorClock, winningState.vectorClock)
            THEN states[i] ELSE winningState,
            i + 1)

\* resolveByVectorClock: the loop from index i on, winningState so far
RECURSIVE VectorClockWinner(_, _, _)
VectorClockWinner(states, winningState, i) ==
    IF i > Len(states) THEN winningState
    ELSE VectorClockWinner(
            states,
            IF HappensAfter(states[i].vectorClock, winningState.vectorClock)
            THEN states[i] ELSE winningState,
            i + 1)

ResolveByVectorClock(conflict) ==
    LET winningState == VectorClockWinner(conflict.states, conflict.states[1], 2)
    IN  [resolvedState |-> winningState.state,
         vectorClock |-> Clone(winningState.vectorClock),
         strategy |-> VECTOR_CLOCK]

\* the highest counter of a clock above floor (0 if none is)
RECURSIVE MaxAbove(_, _, _)
MaxAbove(c, keys, floor) ==
    IF keys = {} THEN floor
    ELSE LET k == CHOOSE x \in keys : TRUE
         IN  MaxAbove(c, keys \ {k}, IF Get(c, k) > floor THEN Get(c, k) ELSE floor)

\* variant: maxTimestamp is tracked but winningState is never reassigned
LastWriteWinnerKept(states, winningState, maxTimestamp, i) == winningState

\* resolveByLastWrite: the outer loop from index i on, with the winner and
\* maxTimestamp so far; a state takes over when one of its counters is
\* strictly above maxTimestamp
RECURSIVE LastWriteWinner(_, _, _, _)
LastWriteWinner(states, winningState, maxTimestamp, i) ==
    IF i > Len(states) THEN winningState
    ELSE LET c == states[i].vectorClock
             m == MaxAbove(c, GetPeerIds(c), maxTimestamp)
         IN  LastWriteWinner(states,
                             IF m > maxTimestamp THEN states[i] ELSE winningState,
                             m, i + 1)

ResolveByLastWrite(conflict) ==
    LET winningState == LastWriteWinner(conflict.states, conflict.states[1], 0, 1)
    IN  [resolvedState |-> winningState.state,
         vectorClock |-> Clone(winningState.vectorClock),
         strategy |-> LAST_WRITE_WINS]

\* variant: the resolved clock is adopted but the resolved state is not
ResolveConflictClockOnly(e, conflict) ==
    LET resolution ==
            IF e.conflictResolution = LAST_WRITE_WINS
            THEN ResolveByLastWrite(conflict)
            ELSE ResolveByVectorClock(conflict)
        e1 == Emit(e, CONFLICT_RESOLVED, resolution)
    IN  [e1 EXCEPT !.localClock = resolution.vectorClock]

\* resolveConflict(conflict)
ResolveConflict(e, conflict) ==
    LET resolution ==
            IF e.conflictResolution = VECTOR_CLOCK THEN ResolveByVectorClock(conflict)
            ELSE IF e.conflictResolution = LAST_WRITE_WINS
                 THEN ResolveByLastWrite(conflict)
            ELSE ResolveByVectorClock(conflict)
        e1 == Emit(e, CONFLICT_RESOLVED, resolution)
    IN  [e1 EXCEPT !.localState = resolution.resolvedState,
                   !.localClock = resolution.vectorClock]

\* variant: peerClocks is read after the new clock was stored
ExistingClockAfterSet(e, message) == {FromJSON(message.vectorClock)}

\* existingClock = this.peerClocks.get(message.from): a one-element set, or {}
ExistingClockOf(e, message) ==
    IF message.from \in DOMAIN e.peerClocks
    THEN {e.peerClocks[message.from]} ELSE {}

\* the StateConflict built when a conflict is found
StateConflictOf(e, message, peerClock) ==
    [states |-> << [peerId |-> message.from, state |-> message.payload,
                    vectorClock |-> peerClock],
                   [peerId |-> LocalId, state |-> e.localState,
                    vectorClock |-> e.localClock] >>]

\* variant: the accepted payload is also merged into the local state
AcceptUpdateIntoLocal(e, message) ==
    [e EXCEPT !.peerStates = MapSet(@, message.from, message.payload),
              !.localState = ObjectSpread(@, message.payload)]

\* no conflict: this.peerStates.set(message.from, message.payload)
AcceptUpdate(e, message) ==
    [e EXCEPT !.peerStates = MapSet(@, message.from, message.payload)]

\* variant: the sender's clock is merged into the local clock only once the
\* conflict has been dealt with
HandleStateUpdateMergeLast(e, message) ==
    LET peerClock == FromJSON(message.vectorClock)
        existingClock == ExistingClockOf(e, message)
        e1 == [e EXCEPT !.peerClocks = MapSet(@, message.from, peerClock),
                        !.aliased = @ \ {message.from}]
        conflict == StateConflictOf(e1, message, peerClock)
        e2 == IF /\ existingClock # {}
                 /\ \A clock \in existingClock : HasConflict(clock, peerClock)
              THEN ResolveConflict(Emit(e1, CONFLICT_DETECTED, conflict), conflict)
              ELSE AcceptUpdate(e1, message)
        e3 == [e2 EXCEPT !.localClock = Merge(@, peerClock)]
    IN  Emit(e3, STATE_UPDATED,
             [peerId |-> message.from, state |-> message.payload,
              vectorClock |-> peerClock])

\* variant: the payload becomes the sender's snapshot whether or not the
\* message conflicts
HandleStateUpdateSnapshotAlways(e, message) ==
    LET peerClock == FromJSON(message.vectorClock)
        existingClock == ExistingClockOf(e, message)
        e1 == [e EXCEPT !.peerClocks = MapSet(@, message.from, peerClock),
                        !.aliased = @ \ {message.from},
                        !.localClock = Merge(@, peerClock)]
        conflict == StateConflictOf(e1, message, peerClock)
        e2 == IF /\ existingClock # {}
                 /\ \A clock \in existingClock : HasConflict(clock, peerClock)
              THEN ResolveConflict(Emit(e1, CONFLICT_DETECTED, conflict), conflict)
              ELSE e1
    IN  Emit(AcceptUpdate(e2, message), STATE_UPDATED,
             [peerId |-> message.from, state |-> message.payload,
              vectorClock |-> peerClock])

\* handleStateUpdate(message); fromJSON, its first statement, throws on a
\* message without a clock
HandleStateUpdate(e, message) ==
    IF ~HasClock(message) THEN Throws(e, TYPE_ERROR) ELSE
    LET peerClock == FromJSON(message.vectorClock)
        existingClock == ExistingClockOf(e, message)
        e1 == [e EXCEPT !.peerClocks = MapSet(@, message.from, peerClock),
                        !.aliased = @ \ {message.from},
                        !.localClock = Merge(@, peerClock)]
        conflict == StateConflictOf(e1, message, peerClock)
        e2 == IF /\ existingClock # {}
                 /\ \A clock \in existingClock : HasConflict(clock, peerClock)
              THEN ResolveConflict(Emit(e1, CONFLICT_DETECTED, conflict), conflict)
              ELSE AcceptUpdate(e1, message)
    IN  Emit(e2, STATE_UPDATED,
             [peerId |-> message.from, state |-> message.payload,
              vectorClock |-> peerClock])

\* variant: the local clock is incremented for the reply
HandleStateRequestTicking(e, message) ==
    LET e1 == [e EXCEPT !.localClock = Increment(@, LocalId)]
    IN  SendMessage(e1, [type |-> STATE_RESPONSE, from |-> LocalId,
                         to |-> message.from, payload |-> e1.localState,
                         vectorClock |-> ToJSON(e1.localClock)])

\* handleStateRequest(message)
HandleStateRequest(e, message) ==
    SendMessage(e, [type |-> STATE_RESPONSE, from |-> LocalId, to |-> message.from,
                    payload |-> e.localState,
                    vectorClock |-> ToJSON(e.localClock)])

\* handleStateResponse(message)
HandleStateResponse(e, message) == HandleStateUpdate(e, message)

\* variant: the clock stored for the sender is merged with the new one
HandleVectorClockSyncMerged(e, message) ==
    LET peerClock == FromJSON(message.vectorClock)
    IN  [e EXCEPT !.localClock = Merge(@, peerClock),
                  !.peerClocks =
                      MapSet(@, message.from,
                             IF message.from \in DOMAIN @
                             THEN Merge(@[message.from], peerClock)
                             ELSE peerClock)]

\* variant: the sender's clock is stored but not merged into the local clock
HandleVectorClockSyncStoreOnly(e, message) ==
    LET peerClock == FromJSON(message.vectorClock)
    IN  [e EXCEPT !.peerClocks = MapSet(@, message.from, peerClock)]

\* handleVectorClockSync(message); fromJSON, its first statement, throws on
\* a message without a clock
HandleVectorClockSync(e, message) ==
    IF ~HasClock(message) THEN Throws(e, TYPE_ERROR) ELSE
    LET peerClock == FromJSON(message.vectorClock)
    IN  [e EXCEPT !.localClock = Merge(@, peerClock),
                  !.peerClocks = MapSet(@, message.from, peerClock),
                  !.aliased = @ \ {message.from}]

\* handlePeerHeartbeat(message): only peer.metadata.lastSeen = Date.now()
HandlePeerHeartbeat(e, message) == e

\* handleMessage(message): messageHandlers.get(message.type), if there is one
HandleMessage(e, message) ==
    IF message.type = STATE_UPDATE THEN HandleStateUpdate(e, message)
    ELSE IF message.type = STATE_REQUEST THEN HandleStateRequest(e, message)
    ELSE IF message.type = STATE_RESPONSE THEN HandleStateResponse(e, message)
    ELSE IF message.type = VECTOR_CLOCK_SYNC THEN HandleVectorClockSync(e, message)
    ELSE IF message.type = PEER_HEARTBEAT THEN HandlePeerHeartbeat(e, message)
    ELSE e

\* variant: the tick counts as a local event and increments the local clock
SyncWithPeersTicking(e) ==
    LET e1 == Emit([e EXCEPT !.localClock = Increment(@, LocalId)],
                   SYNC_REQUESTED, Null)
        e2 == BroadcastMessage(e1, [type |-> VECTOR_CLOCK_SYNC, from |-> LocalId,
                                    to |-> NoRecipient, payload |-> Null,
                                    vectorClock |-> ToJSON(e1.localClock)])
    IN  Emit(e2, SYNC_COMPLETED, Null)

\* syncWithPeers(): what the sync timer runs
SyncWithPeers(e) ==
    LET e1 == Emit(e, SYNC_REQUESTED, Null)
        e2 == BroadcastMessage(e1, [type |-> VECTOR_CLOCK_SYNC, from |-> LocalId,
                                    to |-> NoRecipient, payload |-> Null,
                                    vectorClock |-> ToJSON(e1.localClock)])
    IN  Emit(e2, SYNC_COMPLETED, Null)

\* addPeer(peer): peer.vectorClock is a one-element set, or {} for undefined;
\* the clock object passed in is stored as it is, not cloned
AddPeer(e, id, vectorClock) ==
    LET e1 == [e EXCEPT !.peers = IF InSeq(@, id) THEN @ ELSE Append(@, id)]
    IN  IF vectorClock # {}
        THEN [e1 EXCEPT !.peerClocks =
                            MapSet(@, id, CHOOSE c \in vectorClock : TRUE),
                        !.aliased = @ \cup {id}]
        ELSE e1

\* variant: the clock stored for the peer outlives its removal
RemovePeerKeepsClock(e, peerId) ==
    [e EXCEPT !.peers = SelectSeq(@, LAMBDA x : x # peerId),
              !.peerStates = MapDelete(@, peerId)]

\* variant: the removed peer's counter is taken out of the local clock too
RemovePeerRewinds(e, peerId) ==
    [e EXCEPT !.peers = SelectSeq(@, LAMBDA x : x # peerId),
              !.peerClocks = MapDelete(@, peerId),
              !.peerStates = MapDelete(@, peerId),
              !.localClock = MapDelete(@, peerId)]

\* removePeer(peerId)
RemovePeer(e, peerId) ==
    [e EXCEPT !.peers = SelectSeq(@, LAMBDA x : x # peerId),
              !.peerClocks = MapDelete(@, peerId),
              !.aliased = @ \ {peerId},
              !.peerStates = MapDelete(@, peerId)]

\* variant: the timer is left running
StopSyncTimerNot(e) == e

\* stopSyncTimer()
StopSyncTimer(e) == IF e.syncTimer THEN [e EXCEPT !.syncTimer = FALSE] ELSE e

\* destroy(); removeAllListeners() is the engine's own EventEmitter method and
\* detaches what was attached to the engine, not what the engine attached to
\* the mesh; this.mesh is not assigned
Destroy(e) ==
    [StopSyncTimer(e) EXCEPT !.listeners = FALSE,
                             !.peerClocks = EmptyMap,
                             !.aliased = {},
                             !.peerStates = EmptyMap,
                             !.peers = << >>]

\* the listener setupMeshIntegration registers for 'peerDiscovered', and the
\* one for 'peerConnected', which is the same
OnPeerDiscovered(e, peerId) ==
    IF peerId # LocalId /\ ~InSeq(e.peers, peerId)
    THEN AddPeer(e, peerId, {})
    ELSE e

\* the listener registered for 'peerDisconnected'
OnPeerDisconnected(e, peerId) == RemovePeer(e, peerId)

\* the listener registered for 'messageReceived'; ours: content exists, is
\* marked _pigeonmatch and carries this engine's namespace
OnMessageReceived(e, ours, content) ==
    IF ours THEN HandleMessage(e, content) ELSE e

\* syncMeshPeers(): the loop over the ids the mesh reports, from index i on
RECURSIVE SyncMeshPeersFrom(_, _, _)
SyncMeshPeersFrom(e, peerIds, i) ==
    IF i > Len(peerIds) THEN e
    ELSE SyncMeshPeersFrom(OnPeerDiscovered(e, peerIds[i]), peerIds, i + 1)

\* setupMeshIntegration(), run by the constructor when a mesh is given;
\* peerIds: what getDiscoveredPeers() and getPeers() report at that moment
SetupMeshIntegration(e, peerIds) ==
    IF ~e.mesh THEN e ELSE SyncMeshPeersFrom(e, peerIds, 1)

(***************************************************************************)
(* MatchmakingEngine.  The methods are operators on the record m of the    *)
(* engine's fields; m.log collects every emit in order and m.result is     *)
(* what the method returns (Null for void).  A peer is the object the      *)
(* caller passed: its id, its metadata and the clock addPeer gave it.  A   *)
(* match id "match-<namespace>-<n>" is modelled by its number n, and a     *)
(* MatchGroup by its id and its peers.  Date.now() values (joinedAt,       *)
(* createdAt) are advisory and left out.  The engine is constructed        *)
(* without a mesh.                                                         *)
(***************************************************************************)
Matchmaker ==
    [config |-> config, peers |-> matchPeers, matches |-> matches,
     matchQueue |-> matchQueue, matchCounter |-> matchCounter,
     log |-> << >>, result |-> Null]

\* new MatchmakingEngine({minPeers, maxPeers, matchCriteria})
MatchConstructor(minPeers, maxPeers, matchCriteria) ==
    [config |-> [minPeers |-> minPeers, maxPeers |-> maxPeers,
                 matchCriteria |-> matchCriteria],
     peers |-> EmptyMap, matches |-> EmptyMap, matchQueue |-> << >>,
     matchCounter |-> 0, log |-> << >>, result |-> Null]

\* this.emit(type, data)
MatchEmit(m, type, data) ==
    [m EXCEPT !.log = Append(@, [type |-> type, data |-> data])]

\* the test applyMatchCriteria's filter makes on one peer
MeetsCriteria(peer, matchCriteria) ==
    \A key \in DOMAIN matchCriteria :
        /\ key \in DOMAIN peer.metadata
        /\ peer.metadata[key] = matchCriteria[key]

\* applyMatchCriteria(peers)
ApplyMatchCriteria(m, peerList) ==
    IF DOMAIN m.config.matchCriteria = {} THEN peerList
    ELSE SelectSeq(peerList,
                   LAMBDA peer : MeetsCriteria(peer, m.config.matchCriteria))

\* createMatch(peers)
CreateMatch(m, peerList) ==
    LET matchId == m.matchCounter + 1
    IN  [m EXCEPT !.matchCounter = matchId,
                  !.matches = MapSet(@, matchId,
                                     [id |-> matchId, peers |-> peerList])]

\* variant: a match is made of whatever the queue holds
TryCreateMatchAlways(m) ==
    IF m.matchQueue = << >> THEN m
    ELSE LET m1 == CreateMatch([m EXCEPT !.matchQueue = << >>], m.matchQueue)
             match == m1.matches[m1.matchCounter]
         IN  MatchEmit(MatchEmit(m1, MATCH_FOUND, match), MATCH_READY, match)

\* tryCreateMatch()
TryCreateMatch(m) ==
    IF Len(m.matchQueue) < m.config.minPeers THEN m
    ELSE LET taken == IF Len(m.matchQueue) < m.config.maxPeers
                      THEN Len(m.matchQueue) ELSE m.config.maxPeers
             peersForMatch == SubSeq(m.matchQueue, 1, taken)
             m1 == [m EXCEPT !.matchQueue = SubSeq(@, taken + 1, Len(@))]
             matchedPeers == ApplyMatchCriteria(m1, peersForMatch)
         IN  IF Len(matchedPeers) >= m.config.minPeers
             THEN LET m2 == CreateMatch(m1, matchedPeers)
                      match == m2.matches[m2.matchCounter]
                  IN  MatchEmit(MatchEmit(m2, MATCH_FOUND, match),
                                MATCH_READY, match)
             ELSE MatchEmit([m1 EXCEPT !.matchQueue = matchedPeers \o @],
                            MATCH_FAILED,
                            [peersRequired |-> m.config.minPeers,
                             peersAvailable |-> Len(matchedPeers)])

\* addPeer(peer), peer passed without a vectorClock: the clock addPeer
\* creates holds 1 for the peer's id after increment
MatchAddPeer(m, peer) ==
    LET joined == [id |-> peer.id, metadata |-> peer.metadata,
                   vectorClock |-> Increment(EmptyMap, peer.id)]
        m1 == [m EXCEPT !.peers = MapSet(@, joined.id, joined),
                        !.matchQueue = Append(@, joined)]
    IN  TryCreateMatch(MatchEmit(m1, PEER_JOINED, joined))

\* list.findIndex(p => p.id === peerId), 0 for -1
RECURSIVE FindIndexFrom(_, _, _)
FindIndexFrom(list, peerId, i) ==
    IF i > Len(list) THEN 0
    ELSE IF list[i].id = peerId THEN i
    ELSE FindIndexFrom(list, peerId, i + 1)

FindIndex(list, peerId) == FindIndexFrom(list, peerId, 1)

\* list.splice(index, 1)
Splice(list, index) ==
    SubSeq(list, 1, index - 1) \o SubSeq(list, index + 1, Len(list))

\* variant: every entry of the peer is taken out of the list
SpliceFirstAll(list, peerId) == SelectSeq(list, LAMBDA p : p.id # peerId)

\* findIndex and splice: the first entry of the peer, if there is one, is
\* taken out of the list
SpliceFirst(list, peerId) ==
    IF FindIndex(list, peerId) # 0
    THEN Splice(list, FindIndex(list, peerId))
    ELSE list

\* disbandMatch: the loop over match.peers from index i on
RECURSIVE ReturnToQueueFrom(_, _, _)
ReturnToQueueFrom(m, peerList, i) ==
    IF i > Len(peerList) THEN m
    ELSE ReturnToQueueFrom(
            IF peerList[i].id \in DOMAIN m.peers
            THEN [m EXCEPT !.matchQueue = Append(@, peerList[i])]
            ELSE m,
            peerList, i + 1)

\* variant: the match is deleted and its peers are not put back
DisbandMatchDropping(m, matchId) ==
    IF matchId \notin DOMAIN m.matches THEN [m EXCEPT !.result = FALSE]
    ELSE [MatchEmit([m EXCEPT !.matches = MapDelete(@, matchId)],
                    MATCH_DISBANDED, m.matches[matchId])
             EXCEPT !.result = TRUE]

\* disbandMatch(matchId)
DisbandMatch(m, matchId) ==
    IF matchId \notin DOMAIN m.matches THEN [m EXCEPT !.result = FALSE]
    ELSE LET match == m.matches[matchId]
             m1 == ReturnToQueueFrom(m, match.peers, 1)
             m2 == [m1 EXCEPT !.matches = MapDelete(@, matchId)]
         IN  [MatchEmit(m2, MATCH_DISBANDED, match) EXCEPT !.result = TRUE]

\* removePeer: the loop over this.matches.entries(), in insertion order,
\* which is the order of the match numbers; matchIds: the entries to come
RECURSIVE RemoveFromMatches(_, _, _)
RemoveFromMatches(m, peerId, matchIds) ==
    IF matchIds = {} THEN m
    ELSE LET matchId == CHOOSE x \in matchIds : \A y \in matchIds : x <= y
             match == m.matches[matchId]
             m1 == [m EXCEPT !.matches[matchId].peers = SpliceFirst(@, peerId)]
         IN  RemoveFromMatches(
                IF FindIndex(match.peers, peerId) = 0 THEN m
                ELSE IF Len(m1.matches[matchId].peers) < m.config.minPeers
                THEN DisbandMatch(m1, matchId)
                ELSE m1,
                peerId, matchIds \ {matchId})

\* variant: a match the peer leaves is kept however few peers remain
RemovePeerKeepsMatch(m, peerId) ==
    IF peerId \notin DOMAIN m.peers THEN [m EXCEPT !.result = FALSE]
    ELSE LET peer == m.peers[peerId]
             m1 == [m EXCEPT !.peers = MapDelete(@, peerId),
                             !.matchQueue = SpliceFirst(@, peerId),
                             !.matches =
                                 [x \in DOMAIN @ |->
                                     [@[x] EXCEPT !.peers = SpliceFirst(@, peerId)]]]
         IN  [MatchEmit(m1, PEER_LEFT, peer) EXCEPT !.result = TRUE]

\* removePeer(peerId)
MatchRemovePeer(m, peerId) ==
    IF peerId \notin DOMAIN m.peers THEN [m EXCEPT !.result = FALSE]
    ELSE LET peer == m.peers[peerId]
             m1 == [m EXCEPT !.peers = MapDelete(@, peerId),
                             !.matchQueue = SpliceFirst(@, peerId)]
             m2 == RemoveFromMatches(m1, peerId, DOMAIN m1.matches)
         IN  [MatchEmit(m2, PEER_LEFT, peer) EXCEPT !.result = TRUE]

\* clear(): matchCounter is kept
MatchClear(m) ==
    [m EXCEPT !.peers = EmptyMap, !.matches = EmptyMap, !.matchQueue = << >>]

MatchBecomes(m, op, arg) ==
    /\ config' = m.config
    /\ matchPeers' = m.peers
    /\ matches' = m.matches
    /\ matchQueue' = m.matchQueue
    /\ matchCounter' = m.matchCounter
    /\ matchLog' = m.log
    /\ matchLast' = [op |-> op, arg |-> arg, result |-> m.result]

MatchConstructed(m) ==
    /\ config = m.config
    /\ matchPeers = m.peers
    /\ matches = m.matches
    /\ matchQueue = m.matchQueue
    /\ matchCounter = m.matchCounter
    /\ matchLog = m.log
    /\ matchLast = [op |-> "constructor", arg |-> Null, result |-> Null]

\* the configuration of the tests: groups of two to four, no criteria
TestMinPeers == 2
TestMaxPeers == 4

\* a MatchmakingEngine that nothing calls
MatchmakerIdle ==
    MatchConstructed(MatchConstructor(TestMinPeers, TestMaxPeers, EmptyMap))

(***************************************************************************)
(* The engine as a state machine: the constructor (without a mesh), then   *)
(* one action per public operation, inbound message type and timer tick.   *)
(* last records the operation that ran, its argument, for a message the    *)
(* clock its sender serialised, and what peerClocks held for the peer      *)
(* concerned as the operation started.                                     *)
(***************************************************************************)
UpdateInputs == {[x |-> 1]}

\* every Map over the keys K whose counters are 1..n (no key is held at 0)
PositiveClocksOver(K, n) == UNION {[S -> 1..n] : S \in SUBSET K}

\* "p" is the peer whose messages the engine reconciles; "q" is a bystander
\* that is added with a clock of its own, and removed, but sends nothing
Senders == {"p"}
Payloads == {[x |-> 2], [y |-> 1]}
ResponsePayloads == {[y |-> 1]}
MsgClocks == PositiveClocksOver({LocalId, "p"}, MaxCounter)

\* addPeer's peer.vectorClock: a one-element set, or {} for undefined; "p" may
\* be announced with a clock ahead of every message it sends
SeedClocksOf(id) ==
    IF id = "p" THEN {{}, {[p |-> MaxCounter + 1]}} ELSE {{[q |-> 1]}}

\* the message a peer builds from its clock c
Message(type, from, payload, c) ==
    [type |-> type, from |-> from, to |-> NoRecipient, payload |-> payload,
     vectorClock |-> ToJSON(c)]

\* this.peerClocks.get(id) as the operation starts: a one-element set or {}
ExistingClock(id) == IF id \in DOMAIN peerClocks THEN {peerClocks[id]} ELSE {}

\* hist when nothing is followed
Untracked ==
    [track |-> FALSE, removed |-> {}, silent |-> {},
     afterRemoval |-> FALSE, afterSilence |-> FALSE]

\* hist when removals are followed and none has happened yet
Tracked == [Untracked EXCEPT !.track = TRUE]

\* hist after the operation op(arg).  removed: the senders removePeer was
\* called for, no state-bearing message from them handled since; silent:
\* those of them for which nothing stored a clock since either (no
\* VECTOR_CLOCK_SYNC from them, no addPeer with a clock); afterRemoval,
\* afterSilence: op handled the next state-bearing message of such a peer
History(op, arg) ==
    IF ~hist.track THEN hist
    ELSE IF op = "removePeer"
    THEN [track |-> TRUE,
          removed |-> hist.removed \cup ({arg.id} \cap Senders),
          silent |-> hist.silent \cup ({arg.id} \cap Senders),
          afterRemoval |-> FALSE, afterSilence |-> FALSE]
    ELSE IF op = "handleMessage" /\ arg.type \in {STATE_UPDATE, STATE_RESPONSE}
    THEN [track |-> TRUE,
          removed |-> hist.removed \ {arg.from},
          silent |-> hist.silent \ {arg.from},
          afterRemoval |-> arg.from \in hist.removed,
          afterSilence |-> arg.from \in hist.silent]
    ELSE IF op = "handleMessage" /\ arg.type = VECTOR_CLOCK_SYNC
    THEN [hist EXCEPT !.silent = @ \ {arg.from},
                      !.afterRemoval = FALSE, !.afterSilence = FALSE]
    ELSE IF op = "addPeer" /\ arg.vectorClock # {}
    THEN [hist EXCEPT !.silent = @ \ {arg.id},
                      !.afterRemoval = FALSE, !.afterSilence = FALSE]
    ELSE [hist EXCEPT !.afterRemoval = FALSE, !.afterSilence = FALSE]

Becomes(e, op, arg, clock, existingClock) ==
    /\ conflictResolution' = e.conflictResolution
    /\ mesh' = e.mesh
    /\ localClock' = e.localClock
    /\ localState' = e.localState
    /\ peerClocks' = e.peerClocks
    /\ peerStates' = e.peerStates
    /\ peers' = e.peers
    /\ syncTimer' = e.syncTimer
    /\ listeners' = e.listeners
    /\ aliased' = e.aliased
    /\ hist' = History(op, arg)
    /\ log' = e.log
    /\ last' = [op |-> op, arg |-> arg, clock |-> clock,
                existingClock |-> existingClock]

Constructed(e) ==
    /\ conflictResolution = e.conflictResolution
    /\ mesh = e.mesh
    /\ localClock = e.localClock
    /\ localState = e.localState
    /\ peerClocks = e.peerClocks
    /\ peerStates = e.peerStates
    /\ peers = e.peers
    /\ syncTimer = e.syncTimer
    /\ listeners = e.listeners
    /\ aliased = e.aliased
    /\ log = e.log
    /\ last = [op |-> "constructor", arg |-> Null, clock |-> EmptyMap,
               existingClock |-> {}]

\* the engine is constructed with no strategy given or with one of the two
\* strategies resolveConflict implements
Init ==
    /\ \E strategyArg \in {"", VECTOR_CLOCK, LAST_WRITE_WINS} :
          Constructed(Constructor(strategyArg, FALSE))
    /\ clkA = EmptyMap
    /\ clkB = EmptyMap
    /\ clkLink = Unlinked
    /\ clkRes = [op |-> "none"]
    /\ hist = Untracked
    /\ MatchmakerIdle

\* the engine is constructed with the strategy resolveConflict has no case for
InitCustom ==
    /\ Constructed(Constructor(CUSTOM, FALSE))
    /\ clkA = EmptyMap
    /\ clkB = EmptyMap
    /\ clkLink = Unlinked
    /\ clkRes = [op |-> "none"]
    /\ hist = Untracked
    /\ MatchmakerIdle

\* handleMessage(m), m built by its sender from the clock c
Delivered(m, c) ==
    Becomes(HandleMessage(Engine, m), "handleMessage", m, c, ExistingClock(m.from))

DoUpdateState ==
    \E state \in UpdateInputs :
        /\ Get(localClock, LocalId) < MaxCounter
        /\ Becomes(UpdateState(Engine, state), "updateState", state, EmptyMap, {})
        /\ UNCHANGED <<clockVars, matchVars>>

ReceiveStateUpdate ==
    \E from \in Senders, payload \in Payloads, c \in MsgClocks :
        /\ Delivered(Message(STATE_UPDATE, from, payload, c), c)
        /\ UNCHANGED <<clockVars, matchVars>>

ReceiveStateResponse ==
    \E from \in Senders, payload \in ResponsePayloads, c \in MsgClocks :
        /\ Delivered(Message(STATE_RESPONSE, from, payload, c), c)
        /\ UNCHANGED <<clockVars, matchVars>>

ReceiveStateRequest ==
    \E from \in Senders :
        /\ Delivered(Message(STATE_REQUEST, from, Null, EmptyMap), EmptyMap)
        /\ UNCHANGED <<clockVars, matchVars>>

ReceiveVectorClockSync ==
    \E from \in Senders, c \in MsgClocks :
        /\ Delivered(Message(VECTOR_CLOCK_SYNC, from, Null, c), c)
        /\ UNCHANGED <<clockVars, matchVars>>

ReceivePeerHeartbeat ==
    \E from \in Senders :
        /\ Delivered(Message(PEER_HEARTBEAT, from, Null, EmptyMap), EmptyMap)
        /\ UNCHANGED <<clockVars, matchVars>>

DoAddPeer ==
    \E id \in Remote :
      \E vectorClock \in SeedClocksOf(id) :
        /\ Becomes(AddPeer(Engine, id, vectorClock), "addPeer",
                   [id |-> id, vectorClock |-> vectorClock], EmptyMap,
                   ExistingClock(id))
        /\ UNCHANGED <<clockVars, matchVars>>

DoRemovePeer ==
    \E id \in Remote :
        /\ Becomes(RemovePeer(Engine, id), "removePeer", [id |-> id], EmptyMap,
                   ExistingClock(id))
        /\ UNCHANGED <<clockVars, matchVars>>

\* the callback of setInterval, which runs while the timer is not cleared
SyncTick ==
    /\ syncTimer
    /\ Becomes(SyncWithPeers(Engine), "syncWithPeers", Null, EmptyMap, {})
    /\ UNCHANGED <<clockVars, matchVars>>

Next ==
    \/ DoUpdateState
    \/ ReceiveStateUpdate
    \/ ReceiveStateResponse
    \/ ReceiveStateRequest
    \/ ReceiveVectorClockSync
    \/ ReceivePeerHeartbeat
    \/ DoAddPeer
    \/ DoRemovePeer
    \/ SyncTick

Spec == Init /\ [][Next]_vars

SpecCustom == InitCustom /\ [][Next]_vars

\* as Init, with the removals of peers followed in hist
InitRemoval ==
    /\ \E strategyArg \in {"", VECTOR_CLOCK, LAST_WRITE_WINS} :
          Constructed(Constructor(strategyArg, FALSE))
    /\ clkA = EmptyMap
    /\ clkB = EmptyMap
    /\ clkLink = Unlinked
    /\ clkRes = [op |-> "none"]
    /\ hist = Tracked
    /\ MatchmakerIdle

SpecRemoval == InitRemoval /\ [][Next]_vars

\* a message type no handler is registered for
UnknownTypes == {"future:kind"}

\* a message without the vectorClock field
ClocklessMessage(type, from, payload) ==
    [type |-> type, from |-> from, to |-> NoRecipient, payload |-> payload]

\* handleMessage(m), m of a type that messageHandlers does not hold
ReceiveUnknownType ==
    \E type \in UnknownTypes, from \in Senders, payload \in Payloads,
       c \in MsgClocks :
        /\ Delivered(Message(type, from, payload, c), c)
        /\ UNCHANGED <<clockVars, matchVars>>

\* handleMessage(m), m of a known type and without a clock
ReceiveWithoutClock ==
    \E type \in MessageType, from \in Senders, payload \in Payloads :
        /\ Delivered(ClocklessMessage(type, from, payload), EmptyMap)
        /\ UNCHANGED <<clockVars, matchVars>>

NextMalformed ==
    \/ Next
    \/ ReceiveUnknownType
    \/ ReceiveWithoutClock

SpecMalformed == Init /\ [][NextMalformed]_vars

(***************************************************************************)
(* The engine and the caller of addPeer.  addPeer stores peer.vectorClock  *)
(* itself, so until the engine stores another clock for the peer the       *)
(* caller and the engine hold one VectorClock object, and the caller, who  *)
(* built it, can go on calling its methods.                                *)
(***************************************************************************)
\* how far the caller advances a clock it passed in
MaxSeedCounter == MaxCounter + 2

\* the caller calls increment(id) on the clock it passed to addPeer for id
\* while peerClocks still holds that object (a clock the engine no longer
\* holds is out of the engine's reach, and the call changes nothing here)
CallerIncrement ==
    \E id \in Remote :
        /\ id \in aliased
        /\ Get(peerClocks[id], id) < MaxSeedCounter
        /\ Becomes([Engine EXCEPT !.peerClocks =
                                     MapSet(@, id, Increment(@[id], id))],
                   "caller:increment", [id |-> id], EmptyMap, ExistingClock(id))
        /\ UNCHANGED <<clockVars, matchVars>>

NextSeed ==
    \/ ReceiveStateUpdate
    \/ ReceiveVectorClockSync
    \/ DoAddPeer
    \/ DoRemovePeer
    \/ CallerIncrement

SpecSeed == Init /\ [][NextSeed]_vars

(***************************************************************************)
(* The engine on a mesh, from construction to destroy() and after: the     *)
(* application writes and shuts the engine down, the timer ticks, and the  *)
(* mesh calls the listeners the constructor registered with mesh.on().     *)
(* Nothing in the class calls mesh.off(), so they stay registered.         *)
(***************************************************************************)
MeshReports == {<< >>, <<"p">>}

\* the ids the mesh notifies about: the sender, and the engine's own id
MeshPeerIds == Senders \cup {LocalId}

InitOnMesh ==
    /\ \E peerIds \in MeshReports :
          Constructed(SetupMeshIntegration(Constructor("", TRUE), peerIds))
    /\ clkA = EmptyMap
    /\ clkB = EmptyMap
    /\ clkLink = Unlinked
    /\ clkRes = [op |-> "none"]
    /\ hist = Untracked
    /\ MatchmakerIdle

DoDestroy ==
    /\ Becomes(Destroy(Engine), "destroy", Null, EmptyMap, {})
    /\ UNCHANGED <<clockVars, matchVars>>

MeshPeerDiscovered ==
    \E peerId \in MeshPeerIds :
        /\ mesh
        /\ Becomes(OnPeerDiscovered(Engine, peerId), "mesh:peerDiscovered",
                   [id |-> peerId, vectorClock |-> {}], EmptyMap,
                   ExistingClock(peerId))
        /\ UNCHANGED <<clockVars, matchVars>>

MeshPeerConnected ==
    \E peerId \in MeshPeerIds :
        /\ mesh
        /\ Becomes(OnPeerDiscovered(Engine, peerId), "mesh:peerConnected",
                   [id |-> peerId, vectorClock |-> {}], EmptyMap,
                   ExistingClock(peerId))
        /\ UNCHANGED <<clockVars, matchVars>>

MeshPeerDisconnected ==
    \E peerId \in MeshPeerIds :
        /\ mesh
        /\ Becomes(OnPeerDisconnected(Engine, peerId), "mesh:peerDisconnected",
                   [id |-> peerId], EmptyMap, ExistingClock(peerId))
        /\ UNCHANGED <<clockVars, matchVars>>

MeshMessageTypes == {STATE_UPDATE, STATE_REQUEST}

MeshMessageReceived ==
    \E ours \in BOOLEAN, type \in MeshMessageTypes, from \in Senders,
       payload \in Payloads, c \in MsgClocks :
        /\ mesh
        /\ Becomes(OnMessageReceived(Engine, ours, Message(type, from, payload, c)),
                   "mesh:messageReceived", Message(type, from, payload, c), c,
                   ExistingClock(from))
        /\ UNCHANGED <<clockVars, matchVars>>

NextOnMesh ==
    \/ DoUpdateState
    \/ SyncTick
    \/ DoDestroy
    \/ MeshPeerDiscovered
    \/ MeshPeerConnected
    \/ MeshPeerDisconnected
    \/ MeshMessageReceived

SpecDestroy == InitOnMesh /\ [][NextOnMesh]_vars

\* the engine is constructed with a mesh to send through, or without one
InitMesh ==
    /\ \E meshArg \in BOOLEAN : Constructed(Constructor("", meshArg))
    /\ clkA = EmptyMap
    /\ clkB = EmptyMap
    /\ clkLink = Unlinked
    /\ clkRes = [op |-> "none"]
    /\ hist = Untracked
    /\ MatchmakerIdle

SpecMesh == InitMesh /\ [][Next]_vars

(***************************************************************************)
(* VectorClock on its own: two clocks drawn from every Map over two peer   *)
(* ids, and the calls a user of the class makes on them.                   *)
(***************************************************************************)
MaxTick == 2
ClockIds == {"p1", "p2"}

ClkInit ==
    /\ Constructed(Constructor("", FALSE))
    /\ clkA \in ClocksOver(ClockIds, MaxTick)
    /\ clkB \in ClocksOver(ClockIds, MaxTick)
    /\ clkLink = Unlinked
    /\ clkRes = [op |-> "none"]
    /\ hist = Untracked
    /\ MatchmakerIdle

Targets == {"a", "b"}
Mutators == {"increment", "merge", "set"}

ClockOf(target) == IF target = "a" THEN clkA ELSE clkB

OtherOf(target) == IF target = "a" THEN clkB ELSE clkA

\* what the record of a call keeps of the call made before
\* it, namely which call on which clock and whether it changed an entry
Previous ==
    IF clkRes.op \in Mutators
    THEN [op |-> clkRes.op, target |-> clkRes.target,
          changed |-> ClockOf(clkRes.target) # clkRes.before]
    ELSE [op |-> clkRes.op, target |-> "", changed |-> FALSE]

\* this.clock of target now holds c; the other clock shows the same entries
\* iff it wraps the same Map
Mutated(target, c) ==
    /\ clkA' = IF target = "a" \/ clkLink.sameMap THEN c ELSE clkA
    /\ clkB' = IF target = "b" \/ clkLink.sameMap THEN c ELSE clkB
    /\ UNCHANGED clkLink

\* a.compare(b), b.compare(a) and the three boolean views, both ways round
ClkCompare ==
    /\ clkRes' = [op |-> "compare",
                  ab |-> Compare(clkA, clkB), ba |-> Compare(clkB, clkA),
                  beforeAB |-> HappensBefore(clkA, clkB),
                  afterAB |-> HappensAfter(clkA, clkB),
                  concurrentAB |-> IsConcurrent(clkA, clkB),
                  concurrentBA |-> IsConcurrent(clkB, clkA)]
    /\ UNCHANGED <<clkA, clkB, clkLink>>
    /\ UNCHANGED <<engineVars, matchVars>>

\* target.increment(id)
ClkIncrement ==
    \E target \in Targets, id \in ClockIds :
        /\ Get(ClockOf(target), id) < MaxTick
        /\ Mutated(target, Increment(ClockOf(target), id))
        /\ clkRes' = [op |-> "increment", target |-> target, id |-> id,
                      before |-> ClockOf(target), other |-> OtherOf(target),
                      prev |-> Previous]
        /\ UNCHANGED <<engineVars, matchVars>>

\* target.merge(the other clock)
ClkMerge ==
    \E target \in Targets :
        /\ Mutated(target, Merge(ClockOf(target), OtherOf(target)))
        /\ clkRes' = [op |-> "merge", target |-> target,
                      before |-> ClockOf(target), other |-> OtherOf(target),
                      prev |-> Previous]
        /\ UNCHANGED <<engineVars, matchVars>>

\* target.set(id, timestamp)
ClkSet ==
    \E target \in Targets, id \in ClockIds, timestamp \in 0..MaxTick :
        /\ Mutated(target, Set(ClockOf(target), id, timestamp))
        /\ clkRes' = [op |-> "set", target |-> target, id |-> id,
                      before |-> ClockOf(target), other |-> OtherOf(target),
                      prev |-> Previous]
        /\ UNCHANGED <<engineVars, matchVars>>

\* target.get(id)
ClkGet ==
    \E target \in Targets, id \in ClockIds :
        /\ clkRes' = [op |-> "get", target |-> target, id |-> id,
                      value |-> Get(ClockOf(target), id), prev |-> Previous]
        /\ UNCHANGED <<clkA, clkB, clkLink>>
        /\ UNCHANGED <<engineVars, matchVars>>

\* b = a.clone()
ClkClone ==
    /\ clkB' = Clone(clkA)
    /\ clkLink' = [cloned |-> TRUE, sameMap |-> CloneSharesMap]
    /\ clkRes' = [op |-> "clone"]
    /\ UNCHANGED clkA
    /\ UNCHANGED <<engineVars, matchVars>>

\* VectorClock.fromJSON(a.toJSON()) and its comparison with a
ClkRoundTrip ==
    /\ clkRes' = [op |-> "roundTrip", json |-> ToJSON(clkA),
                  back |-> FromJSON(ToJSON(clkA)),
                  compare |-> Compare(FromJSON(ToJSON(clkA)), clkA)]
    /\ UNCHANGED <<clkA, clkB, clkLink>>
    /\ UNCHANGED <<engineVars, matchVars>>

ClkNext ==
    \/ ClkCompare
    \/ ClkIncrement
    \/ ClkMerge
    \/ ClkSet
    \/ ClkGet
    \/ ClkClone
    \/ ClkRoundTrip

SpecClock == ClkInit /\ [][ClkNext]_vars

\* the clocks a caller can build over any string key: peer ids are strings and
\* nothing restricts them
KeyIds == ClockIds \cup {PROTO}

ClkInitAnyKey ==
    /\ Constructed(Constructor("", FALSE))
    /\ clkA \in ClocksOver(KeyIds, MaxTick)
    /\ clkB = EmptyMap
    /\ clkLink = Unlinked
    /\ clkRes = [op |-> "none"]
    /\ hist = Untracked
    /\ MatchmakerIdle

SpecClockJSON == ClkInitAnyKey /\ [][ClkRoundTrip]_vars

(***************************************************************************)
(* The MatchmakingEngine as a state machine: the constructor, then one     *)
(* action per public method that writes.  Three callers join, two of them  *)
(* with the metadata the criteria ask for, and any of them may join again  *)
(* under the id it is tracked by.                                          *)
(***************************************************************************)
MaxQueue == 3
MaxMatches == 2

SKILL == [skill |-> "pro"]

\* minPeers and maxPeers as given to the constructor, which checks neither
GroupSizes == {<<2, 2>>, <<2, 3>>, <<3, 2>>}

\* config.matchCriteria: none, or one key to meet
Criteria == {EmptyMap, SKILL}

MatchInputs ==
    {[id |-> "a", metadata |-> SKILL], [id |-> "b", metadata |-> SKILL],
     [id |-> "c", metadata |-> [skill |-> "new"]]}

MatchPeerIds == {peer.id : peer \in MatchInputs}

InitMatch ==
    /\ Constructed(Constructor("", FALSE))
    /\ clkA = EmptyMap
    /\ clkB = EmptyMap
    /\ clkLink = Unlinked
    /\ clkRes = [op |-> "none"]
    /\ hist = Untracked
    /\ \E sizes \in GroupSizes, matchCriteria \in Criteria :
          MatchConstructed(MatchConstructor(sizes[1], sizes[2], matchCriteria))

MatchDoAddPeer ==
    \E peer \in MatchInputs :
        /\ Len(matchQueue) < MaxQueue
        /\ matchCounter < MaxMatches
        /\ MatchBecomes(MatchAddPeer(Matchmaker, peer), "addPeer", peer.id)
        /\ UNCHANGED <<engineVars, clockVars>>

MatchDoRemovePeer ==
    \E peerId \in MatchPeerIds :
        /\ MatchBecomes(MatchRemovePeer(Matchmaker, peerId), "removePeer", peerId)
        /\ UNCHANGED <<engineVars, clockVars>>

MatchDoDisbandMatch ==
    \E matchId \in 1..MaxMatches :
        /\ MatchBecomes(DisbandMatch(Matchmaker, matchId), "disbandMatch", matchId)
        /\ UNCHANGED <<engineVars, clockVars>>

MatchDoClear ==
    /\ MatchBecomes(MatchClear(Matchmaker), "clear", Null)
    /\ UNCHANGED <<engineVars, clockVars>>

NextMatch ==
    \/ MatchDoAddPeer
    \/ MatchDoRemovePeer
    \/ MatchDoDisbandMatch
    \/ MatchDoClear

SpecMatch == InitMatch /\ [][NextMatch]_vars

(***************************************************************************)
(* Properties                                                              *)
(***************************************************************************)
\* the counter a clock holds for id, an id it does not hold read as 0
Counter(c, id) == IF id \in DOMAIN c THEN c[id] ELSE 0

AllIds == Ids \cup KeyIds

\* a strictly dominates b
Dominates(a, b) ==
    /\ \E id \in AllIds : Counter(a, id) > Counter(b, id)
    /\ \A id \in AllIds : Counter(a, id) >= Counter(b, id)

\* C9: compare is the dominance relation with missing keys read as 0: AFTER
\* iff some counter of A is greater and none is less, BEFORE iff some is less
\* and none is greater, CONCURRENT otherwise, equal clocks included.
C9_CompareIsDominance ==
    clkRes.op = "compare" =>
        /\ clkRes.ab \in {AFTER, BEFORE, CONCURRENT}
        /\ clkRes.ab = AFTER <=> Dominates(clkA, clkB)
        /\ clkRes.ab = BEFORE <=> Dominates(clkB, clkA)
        /\ clkRes.ab = CONCURRENT <=> ~Dominates(clkA, clkB) /\ ~Dominates(clkB, clkA)
        /\ (\A id \in AllIds : Counter(clkA, id) = Counter(clkB, id))
              => clkRes.ab = CONCURRENT
        /\ clkA = [p1 |-> 2] /\ clkB = [p1 |-> 1, p2 |-> 1] => clkRes.ab = CONCURRENT
        /\ clkA = [p1 |-> 1] /\ clkB = [p1 |-> 1] => clkRes.ab = CONCURRENT

C9_Witness ==
    /\ clkRes.op = "compare"
    /\ clkA = [p1 |-> 2]
    /\ clkB = [p1 |-> 1, p2 |-> 1]
    /\ clkRes.ab = CONCURRENT

\* C10: A.compare(B) is AFTER iff B.compare(A) is BEFORE, and
\* A.isConcurrent(B) equals B.isConcurrent(A).
C10_CompareSwap ==
    clkRes.op = "compare" =>
        /\ clkRes.ab = AFTER <=> clkRes.ba = BEFORE
        /\ clkRes.concurrentAB <=> clkRes.concurrentBA

C10_Witness ==
    /\ clkRes.op = "compare"
    /\ clkRes.ab = AFTER
    /\ clkRes.ba = BEFORE
    /\ DOMAIN clkA # DOMAIN clkB

\* C11: for all clocks A and B exactly one of A.happensBefore(B),
\* A.happensAfter(B) and A.isConcurrent(B) is true.
C11_ExactlyOneRelation ==
    clkRes.op = "compare" =>
        Cardinality({r \in {"before", "after", "concurrent"} :
                        \/ r = "before" /\ clkRes.beforeAB
                        \/ r = "after" /\ clkRes.afterAB
                        \/ r = "concurrent" /\ clkRes.concurrentAB}) = 1

C11_Witness ==
    /\ clkRes.op = "compare"
    /\ clkRes.afterAB
    /\ ~clkRes.beforeAB
    /\ ~clkRes.concurrentAB
    /\ clkA = [p1 |-> 2, p2 |-> 1]
    /\ clkB = [p1 |-> 1]

\* the clock the last call was made on and the other clock, as they are now
Target == ClockOf(clkRes.target)

Argument == OtherOf(clkRes.target)

\* C12: A.merge(B) sets every counter of A to the maximum of A's and B's
\* counter for that id, missing ids read as 0: no counter of A decreases, ids
\* absent from B keep their value, and B's counters are left as they were.
C12_MergeIsMaximum ==
    clkRes.op = "merge" =>
        /\ \A id \in AllIds :
              /\ Counter(Target, id) >= Counter(clkRes.before, id)
              /\ Counter(Target, id) >= Counter(clkRes.other, id)
              /\ Counter(Target, id) \in {Counter(clkRes.before, id),
                                         Counter(clkRes.other, id)}
              /\ id \notin DOMAIN clkRes.other
                    => Counter(Target, id) = Counter(clkRes.before, id)
        /\ Argument = clkRes.other

C12_Witness ==
    /\ clkRes.op = "merge"
    /\ clkRes.target = "a"
    /\ clkRes.before = [p1 |-> 2]
    /\ clkRes.other = [p1 |-> 1, p2 |-> 1]
    /\ clkA = [p1 |-> 2, p2 |-> 1]
    /\ clkB = [p1 |-> 1, p2 |-> 1]

\* the last call repeats the call made just before it: the same merge, on
\* the same clock with the same argument
MergedAgain ==
    /\ clkRes.op = "merge"
    /\ clkRes.prev.op = "merge"
    /\ clkRes.prev.target = clkRes.target

\* C13: merge is idempotent: performing A.merge(B) twice leaves A with the
\* same counters as performing it once.
C13_MergeIdempotent ==
    MergedAgain =>
        /\ \A id \in AllIds : Counter(Target, id) = Counter(clkRes.before, id)
        /\ DOMAIN Target = DOMAIN clkRes.before

C13_Witness ==
    /\ MergedAgain
    /\ clkRes.prev.changed
    /\ clkRes.target = "a"
    /\ clkA = [p1 |-> 2, p2 |-> 1]
    /\ clkB = [p1 |-> 1, p2 |-> 1]

\* the last two calls merged each clock into the other: A.merge(B), then
\* B.merge(A), or the other way round
MergedBothWays ==
    /\ clkRes.op = "merge"
    /\ clkRes.prev.op = "merge"
    /\ clkRes.prev.target # clkRes.target

\* C14: merge is commutative in effect: the clock obtained by merging B into A
\* and the clock obtained by merging A into B hold identical counters, so they
\* compare as CONCURRENT and neither strictly dominates the other.
C14_MergeCommutes ==
    MergedBothWays =>
        /\ \A id \in AllIds : Counter(clkA, id) = Counter(clkB, id)
        /\ Compare(clkA, clkB) = CONCURRENT
        /\ Compare(clkB, clkA) = CONCURRENT
        /\ ~Dominates(clkA, clkB)
        /\ ~Dominates(clkB, clkA)

C14_Witness ==
    /\ MergedBothWays
    /\ clkRes.target = "b"
    /\ clkRes.prev.changed
    /\ clkRes.before = [p1 |-> 1, p2 |-> 1]
    /\ clkA = [p1 |-> 2, p2 |-> 1]
    /\ clkB = [p1 |-> 2, p2 |-> 1]

\* C15: serialization round trip is lossless: VectorClock.fromJSON(C.toJSON())
\* has exactly the same counter for every peer id as C, and compares as 0
\* with C.
C15_RoundTripLossless ==
    clkRes.op = "roundTrip" =>
        /\ \A id \in AllIds : Counter(clkRes.back, id) = Counter(clkA, id)
        /\ clkRes.compare = CONCURRENT

\* C16: clone() returns an independent copy: after c = A.clone(), any
\* sequence of increment, merge or set on c leaves every counter of A
\* unchanged, and any such sequence on A leaves every counter of c unchanged.
C16_CloneIndependent ==
    /\ clkRes.op = "clone" => clkB = clkA
    /\ clkLink.cloned /\ clkRes.op \in Mutators =>
          /\ \A id \in AllIds : Counter(Argument, id) = Counter(clkRes.other, id)
          /\ DOMAIN Argument = DOMAIN clkRes.other

C16_Witness ==
    /\ clkLink.cloned
    /\ clkRes.op = "increment"
    /\ clkRes.target = "b"
    /\ clkRes.id = "p1"
    /\ clkRes.before = [p1 |-> 1]
    /\ clkA = [p1 |-> 1]
    /\ clkB = [p1 |-> 2]

\* C17: increment(id) raises the counter of id by exactly 1, a missing id
\* counting as 0, and leaves every other counter unchanged; get(id) returns 0
\* for an id the clock holds no entry for.  On an empty clock two
\* increment('p1') calls give get('p1') = 1 then 2 while get('p2') stays 0.
C17_IncrementByOne ==
    /\ clkRes.op = "increment" =>
          /\ Counter(Target, clkRes.id) = Counter(clkRes.before, clkRes.id) + 1
          /\ \A id \in AllIds \ {clkRes.id} :
                /\ Counter(Target, id) = Counter(clkRes.before, id)
                /\ id \in DOMAIN Target <=> id \in DOMAIN clkRes.before
          /\ clkRes.before = EmptyMap /\ clkRes.id = "p1" => Target = [p1 |-> 1]
          /\ clkRes.before = [p1 |-> 1] /\ clkRes.id = "p1" => Target = [p1 |-> 2]
    /\ clkRes.op = "get" =>
          /\ clkRes.id \notin DOMAIN Target => clkRes.value = 0
          /\ clkRes.value = Counter(Target, clkRes.id)

C17_Witness ==
    /\ clkRes.op = "increment"
    /\ clkRes.target = "a"
    /\ clkRes.id = "p1"
    /\ clkRes.prev = [op |-> "increment", target |-> "a", changed |-> TRUE]
    /\ clkRes.before = [p1 |-> 1]
    /\ clkA = [p1 |-> 2]
    /\ Get(clkA, "p1") = 2
    /\ Get(clkA, "p2") = 0

(***************************************************************************)
(* Properties of the engine.  They read the last operation from last and   *)
(* what it emitted from log.                                               *)
(***************************************************************************)
LogOfType(type) == SelectSeq(log, LAMBDA ev : ev.type = type)

StateBearing ==
    /\ last.op = "handleMessage"
    /\ last.arg.type \in {STATE_UPDATE, STATE_RESPONSE}

\* neither clock strictly dominates the other
Concurrent(a, b) == ~Dominates(a, b) /\ ~Dominates(b, a)

\* a clock was stored for the sender and it is concurrent with the new one
StoredIsConcurrent ==
    /\ last.existingClock # {}
    /\ \A old \in last.existingClock : Concurrent(old, last.clock)

ConflictDeclared == Len(LogOfType(CONFLICT_DETECTED)) > 0

\* the candidates of the conflict the last operation declared
Candidates == LogOfType(CONFLICT_DETECTED)[1].data.states

\* C1: a state-bearing message from P declares a conflict exactly when a
\* clock was stored for P and is concurrent with the message's clock; then
\* ConflictDetected carries (P, payload, C_new) and (local id, local state,
\* local clock), in this order, and resolution runs next.
C1_ConflictIffStoredConcurrent ==
    StateBearing =>
        /\ Len(LogOfType(CONFLICT_DETECTED)) = (IF StoredIsConcurrent THEN 1 ELSE 0)
        /\ StoredIsConcurrent =>
              \E i \in 1..(Len(log) - 1) :
                  /\ log[i].type = CONFLICT_DETECTED
                  /\ log[i].data.states =
                        << [peerId |-> last.arg.from, state |-> last.arg.payload,
                            vectorClock |-> last.clock],
                           [peerId |-> LocalId, state |-> log[i].localState,
                            vectorClock |-> log[i].localClock] >>
                  /\ log[i + 1].type = CONFLICT_RESOLVED

C1_Witness ==
    /\ StateBearing
    /\ ConflictDeclared
    /\ \E old \in last.existingClock :
          /\ Counter(old, LocalId) > Counter(last.clock, LocalId)
          /\ Counter(old, "p") < Counter(last.clock, "p")
    /\ Candidates[2].state # EmptyMap

\* C2: a STATE_UPDATE from a peer with no stored clock emits no
\* ConflictDetected and no ConflictResolved, stores the peer's clock, and
\* getPeerState then returns the delivered payload.
C2_FirstContactAccepted ==
    (/\ last.op = "handleMessage"
     /\ last.arg.type = STATE_UPDATE
     /\ last.existingClock = {}) =>
        /\ LogOfType(CONFLICT_DETECTED) = << >>
        /\ LogOfType(CONFLICT_RESOLVED) = << >>
        /\ GetPeerVectorClock(Engine, last.arg.from) = {last.clock}
        /\ GetPeerState(Engine, last.arg.from) = {last.arg.payload}

C2_Witness ==
    /\ last.op = "handleMessage"
    /\ last.arg.type = STATE_UPDATE
    /\ last.existingClock = {}
    /\ conflictResolution = VECTOR_CLOCK
    /\ localState = [x |-> 1]
    /\ Counter(localClock, LocalId) > Counter(last.clock, LocalId)
    /\ GetPeerState(Engine, "p") = {[y |-> 1]}

\* the step delivers a state-bearing message whose sender has a stored clock
\* that is strictly before or strictly after the message's clock
OrderedDelivery ==
    /\ StateBearing'
    /\ last'.existingClock # {}
    /\ \A old \in last'.existingClock : ~Concurrent(old, last'.clock)

\* C3: when the stored clock for P is not concurrent with the new clock, the
\* payload replaces P's snapshot, no conflict event is emitted and the local
\* state is left as it was.
C3_OrderedUpdateAccepted ==
    [][OrderedDelivery =>
          /\ last'.arg.from \in DOMAIN peerStates'
          /\ peerStates'[last'.arg.from] = last'.arg.payload
          /\ LogOfType(CONFLICT_DETECTED)' = << >>
          /\ LogOfType(CONFLICT_RESOLVED)' = << >>
          /\ localState' = localState]_vars

C3_Witness ==
    /\ StateBearing
    /\ \E old \in last.existingClock : Dominates(last.clock, old)
    /\ ~ConflictDeclared
    /\ peerStates["p"] = [x |-> 2]
    /\ localState = [x |-> 1]

\* C4: clock-dominant resolution adopts a candidate whose clock no other
\* candidate's clock dominates, the first candidate when none dominates it;
\* the winner's state and clock are the local state and clock afterwards.
C4_ClockDominantWinner ==
    (conflictResolution = VECTOR_CLOCK /\ StateBearing /\ ConflictDeclared) =>
        \E w \in 1..Len(Candidates) :
            /\ \A j \in 1..Len(Candidates) :
                  ~Dominates(Candidates[j].vectorClock, Candidates[w].vectorClock)
            /\ (\A j \in 1..Len(Candidates) :
                  ~Dominates(Candidates[j].vectorClock, Candidates[1].vectorClock))
                  => w = 1
            /\ localState = Candidates[w].state
            /\ localClock = Candidates[w].vectorClock

C4_Witness ==
    /\ conflictResolution = VECTOR_CLOCK
    /\ StateBearing
    /\ ConflictDeclared
    /\ Dominates(Candidates[2].vectorClock, Candidates[1].vectorClock)
    /\ Candidates[2].state # Candidates[1].state
    /\ localState = Candidates[2].state

\* the highest counter a clock holds, 0 for a clock with no entry
HighestCounter(c) ==
    IF DOMAIN c = {} THEN 0
    ELSE CHOOSE m \in {c[k] : k \in DOMAIN c} : \A k \in DOMAIN c : c[k] <= m

\* C5: last-write-wins adopts a candidate whose clock holds the highest
\* counter found in any candidate's clock; its state and clock are the local
\* state and clock afterwards.
C5_LastWriteWinner ==
    (conflictResolution = LAST_WRITE_WINS /\ StateBearing /\ ConflictDeclared) =>
        \E w \in 1..Len(Candidates) :
            /\ \A j \in 1..Len(Candidates) :
                  HighestCounter(Candidates[j].vectorClock)
                      <= HighestCounter(Candidates[w].vectorClock)
            /\ localState = Candidates[w].state
            /\ localClock = Candidates[w].vectorClock

C5_Witness ==
    /\ conflictResolution = LAST_WRITE_WINS
    /\ StateBearing
    /\ ConflictDeclared
    /\ HighestCounter(Candidates[2].vectorClock)
          > HighestCounter(Candidates[1].vectorClock)
    /\ Candidates[2].state # Candidates[1].state
    /\ localState = Candidates[2].state

\* the local state and clock are those of one candidate, and one
\* ConflictResolved event carries them
ResolutionAdopted ==
    /\ Len(LogOfType(CONFLICT_RESOLVED)) = 1
    /\ \E w \in 1..Len(Candidates) :
          /\ localState = Candidates[w].state
          /\ localClock = Candidates[w].vectorClock
    /\ LogOfType(CONFLICT_RESOLVED)[1].data.resolvedState = localState
    /\ LogOfType(CONFLICT_RESOLVED)[1].data.vectorClock = localClock

\* C6: after a conflict resolution the local state and clock are the winning
\* candidate's, and exactly one ConflictResolved event carries that state,
\* that clock and the strategy configured at construction.
C6_ResolvedEventCarriesConfiguredStrategy ==
    (StateBearing /\ ConflictDeclared) =>
        /\ ResolutionAdopted
        /\ LogOfType(CONFLICT_RESOLVED)[1].data.strategy = conflictResolution

\* the step declares a conflict for an update {x: 2} from P whose clock
\* strictly dominates the local clock, after a local write of {x: 1}
DominatingConflict ==
    /\ conflictResolution = VECTOR_CLOCK
    /\ localState = [x |-> 1]
    /\ Counter(localClock, LocalId) >= 1
    /\ StateBearing'
    /\ last'.arg.payload = [x |-> 2]
    /\ Dominates(last'.clock, localClock)
    /\ ConflictDeclared'

\* C7: with clock-dominant resolution, a conflict declared for P's {x: 2}
\* whose clock strictly dominates the local clock, after a local write of
\* {x: 1}, resolves to P's payload: the resolved state and the local state
\* are {x: 2}.
C7_DominatingRemoteWins ==
    [][DominatingConflict =>
          /\ localState' = [x |-> 2]
          /\ Len(LogOfType(CONFLICT_RESOLVED)') = 1
          /\ LogOfType(CONFLICT_RESOLVED)'[1].data.resolvedState = [x |-> 2]]_vars

C7_Witness ==
    /\ conflictResolution = VECTOR_CLOCK
    /\ StateBearing
    /\ ConflictDeclared
    /\ last.arg.payload = [x |-> 2]
    /\ last.clock = [me |-> 1, p |-> 1]
    /\ last.existingClock = {[p |-> MaxCounter + 1]}
    /\ Candidates[2].state = [x |-> 1]
    /\ localState = [x |-> 2]

\* C8: no counter of the local clock ever decreases, whatever the operation.
C8_LocalClockNeverDecreases ==
    [][\A id \in Ids : Counter(localClock', id) >= Counter(localClock, id)]_vars

\* C18: updateState(s) increments the local clock's counter for the local
\* peer id by exactly 1, leaves every other counter of the local clock
\* unchanged, and shallow-merges s into the local state (keys of s overwrite,
\* other existing keys are kept); it changes no stored peer clock and no
\* peer snapshot.
C18_UpdateStateFrame ==
    [][last'.op = "updateState" =>
          /\ Counter(localClock', LocalId) = Counter(localClock, LocalId) + 1
          /\ \A id \in AllIds \ {LocalId} :
                Counter(localClock', id) = Counter(localClock, id)
          /\ DOMAIN localState' = DOMAIN localState \cup DOMAIN last'.arg
          /\ \A k \in DOMAIN last'.arg : localState'[k] = last'.arg[k]
          /\ \A k \in DOMAIN localState \ DOMAIN last'.arg :
                localState'[k] = localState[k]
          /\ peerClocks' = peerClocks
          /\ peerStates' = peerStates]_vars

\* a write that kept a key it was not given, made next to a stored peer clock
C18_Witness ==
    /\ last.op = "updateState"
    /\ last.arg = [x |-> 1]
    /\ localState = [x |-> 1, y |-> 1]
    /\ Counter(localClock, LocalId) = 1
    /\ Counter(localClock, "p") = 1
    /\ "p" \in DOMAIN peerClocks
    /\ "p" \in DOMAIN peerStates

\* a clock as it goes on the wire
Wire(c) == {<<id, c[id]>> : id \in DOMAIN c}

\* C19: every local state write broadcasts a STATE_UPDATE whose payload is the
\* local state after the write and whose clock is the local clock after the
\* increment, one to every known peer, and then emits StateChanged for the
\* local peer: the sends come first, in the order of the peers, and the
\* StateChanged emission is last.
C19_WriteBroadcastsThenEmits ==
    last.op = "updateState" =>
        /\ Len(log) = Len(peers) + 1
        /\ \A i \in 1..Len(peers) :
              /\ log[i].type = IF mesh THEN MESH_SEND_DIRECT ELSE MESSAGE_SEND
              /\ log[i].data = [type |-> STATE_UPDATE, from |-> LocalId,
                                to |-> peers[i], payload |-> localState,
                                vectorClock |-> Wire(localClock)]
        /\ log[Len(log)].type = STATE_UPDATED
        /\ log[Len(log)].data = [peerId |-> LocalId, state |-> localState,
                                 vectorClock |-> localClock]

C19_Witness ==
    /\ last.op = "updateState"
    /\ mesh
    /\ peers = <<"q", "p">>
    /\ Len(log) = 3
    /\ log[1].data.to = "q"
    /\ log[2].data.to = "p"
    /\ log[3].type = STATE_UPDATED
    /\ localState = [x |-> 1, y |-> 1]

\* the last operation handled a message that carries its sender's clock
ClockBearing ==
    /\ last.op = "handleMessage"
    /\ last.arg.type \in {STATE_UPDATE, STATE_RESPONSE, VECTOR_CLOCK_SYNC}

\* C20: after the engine handles any STATE_UPDATE, STATE_RESPONSE or
\* CLOCK_SYNC from peer P, the clock stored for P equals exactly the clock
\* carried by that message: it is replaced wholesale, not merged with the
\* clock stored before, whether or not a conflict was declared.
C20_StoredClockIsMessageClock ==
    ClockBearing =>
        /\ last.arg.from \in DOMAIN peerClocks
        /\ Wire(peerClocks[last.arg.from]) = last.arg.vectorClock
        /\ peerClocks[last.arg.from] = last.clock

\* a conflict was declared and the clock stored before held a counter the
\* message's clock does not hold
C20_Witness ==
    /\ ClockBearing
    /\ last.arg.type = STATE_UPDATE
    /\ Len(LogOfType(CONFLICT_DETECTED)) = 1
    /\ last.existingClock = {[p |-> MaxCounter + 1]}
    /\ last.clock = [me |-> 1]
    /\ peerClocks["p"] = [me |-> 1]

\* the step handles a message of the given type
Handles(type) ==
    /\ last'.op = "handleMessage"
    /\ last'.arg.type = type

\* the larger of two counters
Larger(a, b) == IF a >= b THEN a ELSE b

\* C21: handling a CLOCK_SYNC from P merges P's clock into the local clock
\* (component-wise maximum) and replaces the stored clock for P, and does
\* nothing else: local state, all peer snapshots and other peers' stored
\* clocks are unchanged, and no event or outbound message is emitted.
C21_ClockSyncFrame ==
    [][Handles(VECTOR_CLOCK_SYNC) =>
          /\ \A id \in AllIds :
                Counter(localClock', id) =
                    Larger(Counter(localClock, id), Counter(last'.clock, id))
          /\ DOMAIN peerClocks' = DOMAIN peerClocks \cup {last'.arg.from}
          /\ peerClocks'[last'.arg.from] = last'.clock
          /\ \A id \in DOMAIN peerClocks \ {last'.arg.from} :
                peerClocks'[id] = peerClocks[id]
          /\ localState' = localState
          /\ peerStates' = peerStates
          /\ peers' = peers
          /\ log' = << >>]_vars

\* a sync that raised the local clock and replaced a stored clock, with
\* another peer's clock and a snapshot in store
C21_Witness ==
    /\ last.op = "handleMessage"
    /\ last.arg.type = VECTOR_CLOCK_SYNC
    /\ last.existingClock = {[me |-> 1]}
    /\ last.clock = [p |-> 1]
    /\ peerClocks = [p |-> [p |-> 1], q |-> [q |-> 1]]
    /\ localClock = [me |-> 1, p |-> 1]
    /\ "p" \in DOMAIN peerStates
    /\ log = << >>

\* the log entry type of a message addressed to one peer
Unicast == IF mesh THEN MESH_SEND_DIRECT ELSE MESSAGE_SEND

\* C22: handling a STATE_REQUEST from P changes no engine state (local clock,
\* local state, peer clocks, peer snapshots) and emits exactly one outbound
\* STATE_RESPONSE addressed to P whose payload is the current local state and
\* whose clock is the current local clock.
C22_StateRequestAnswered ==
    [][Handles(STATE_REQUEST) =>
          /\ localClock' = localClock
          /\ localState' = localState
          /\ peerClocks' = peerClocks
          /\ peerStates' = peerStates
          /\ peers' = peers
          /\ Len(log') = 1
          /\ log'[1].type = Unicast
          /\ log'[1].data = [type |-> STATE_RESPONSE, from |-> LocalId,
                             to |-> last'.arg.from, payload |-> localState,
                             vectorClock |-> Wire(localClock)]]_vars

C22_Witness ==
    /\ last.op = "handleMessage"
    /\ last.arg.type = STATE_REQUEST
    /\ mesh
    /\ Len(log) = 1
    /\ log[1].type = MESH_SEND_DIRECT
    /\ log[1].data.to = "p"
    /\ log[1].data.payload = [x |-> 1]
    /\ log[1].data.vectorClock = {<<"me", 1>>, <<"p", 1>>}
    /\ "p" \notin DOMAIN peerClocks

\* C23: a periodic timer tick changes no reconciliation state (local clock,
\* local state, peer clocks, peer snapshots, known peers) and broadcasts a
\* CLOCK_SYNC carrying the current local clock to all known peers: one copy
\* to each, between the sync:requested and the sync:completed event.
C23_TimerTickFrame ==
    [][last'.op = "syncWithPeers" =>
          /\ localClock' = localClock
          /\ localState' = localState
          /\ peerClocks' = peerClocks
          /\ peerStates' = peerStates
          /\ peers' = peers
          /\ Len(log') = Len(peers) + 2
          /\ log'[1].type = SYNC_REQUESTED
          /\ log'[Len(log')].type = SYNC_COMPLETED
          /\ \A i \in 1..Len(peers) :
                /\ log'[i + 1].type = Unicast
                /\ log'[i + 1].data =
                      [type |-> VECTOR_CLOCK_SYNC, from |-> LocalId,
                       to |-> peers[i], payload |-> Null,
                       vectorClock |-> Wire(localClock)]]_vars

C23_Witness ==
    /\ last.op = "syncWithPeers"
    /\ peers = <<"p", "q">>
    /\ Len(log) = 4
    /\ log[2].data.to = "p"
    /\ log[3].data.to = "q"
    /\ log[2].data.type = VECTOR_CLOCK_SYNC
    /\ log[2].data.vectorClock = {<<"me", 1>>, <<"p", 1>>}
    /\ localState = [x |-> 1]

\* the last message was taken as a first contact: no conflict event, and the
\* payload is the sender's snapshot
TakenAsFirstContact ==
    /\ LogOfType(CONFLICT_DETECTED) = << >>
    /\ LogOfType(CONFLICT_RESOLVED) = << >>
    /\ last.arg.from \in DOMAIN peerStates
    /\ peerStates[last.arg.from] = last.arg.payload

\* C24: after removePeer(P), the next state-bearing message from P is treated
\* as first contact regardless of its clock and of what was stored for P
\* before removal: no conflict event is emitted and the payload becomes P's
\* snapshot.
C24_FirstContactAfterRemoval ==
    hist.afterRemoval => TakenAsFirstContact

\* C24, amended: after removePeer(P), the next state-bearing message from P
\* is treated as first contact regardless of its clock and of what was stored
\* for P before removal, provided no clock was stored for P after the
\* removal (by a CLOCK_SYNC from P or by addPeer(P) with a clock).
C24_FirstContactAfterSilentRemoval ==
    hist.afterSilence =>
        /\ last.existingClock = {}
        /\ TakenAsFirstContact

\* P's clock [p |-> 1] had reached the local clock before P was removed, and
\* the message that follows the removal carries it again
C24_Witness ==
    /\ hist.afterSilence
    /\ last.arg.type = STATE_UPDATE
    /\ last.clock = [p |-> 1]
    /\ last.arg.payload = [y |-> 1]
    /\ localState = [x |-> 2]
    /\ peerStates = [p |-> [y |-> 1]]

\* a sequence without the entries equal to x
Without(seq, x) == SelectSeq(seq, LAMBDA y : y # x)

\* C25: removePeer(P) erases P from the known-peer set, the stored peer
\* clocks and the peer snapshots (getPeerState(P) and getPeerVectorClock(P)
\* become undefined), leaves the local clock, the local state and every other
\* peer's entries unchanged, and is a harmless no-op for a peer that was
\* never added.
C25_RemovePeerFrame ==
    [][last'.op = "removePeer" =>
          LET P == last'.arg.id
          IN  /\ peers' = Without(peers, P)
              /\ DOMAIN peerClocks' = DOMAIN peerClocks \ {P}
              /\ DOMAIN peerStates' = DOMAIN peerStates \ {P}
              /\ \A id \in Ids :
                    id = P => /\ GetPeerState(Engine, id)' = {}
                              /\ GetPeerVectorClock(Engine, id)' = {}
              /\ \A id \in DOMAIN peerClocks' : peerClocks'[id] = peerClocks[id]
              /\ \A id \in DOMAIN peerStates' : peerStates'[id] = peerStates[id]
              /\ localClock' = localClock
              /\ localState' = localState
              /\ (~InSeq(peers, P) /\ P \notin DOMAIN peerClocks
                     /\ P \notin DOMAIN peerStates)
                    => /\ peers' = peers
                       /\ peerClocks' = peerClocks
                       /\ peerStates' = peerStates]_vars

\* P held a clock and its counter is in the local clock; the other peer's
\* entries are still there
C25_Witness ==
    /\ last.op = "removePeer"
    /\ last.arg.id = "p"
    /\ last.existingClock = {[p |-> 1]}
    /\ Counter(localClock, "p") = 1
    /\ localState = [x |-> 1]
    /\ peers = <<"q">>
    /\ peerClocks = [q |-> [q |-> 1]]
    /\ peerStates = EmptyMap

\* MatchmakingEvent.PEER_JOINED and PEER_LEFT are the only peer events
\* types.ts declares; CollaborationEvent has none

\* C26: the reconciliation engine emits a PeerJoined event on every
\* addPeer(P) and a PeerLeft event on every removePeer(P).
C26_PeerEventsEmitted ==
    /\ last.op = "addPeer" => Len(LogOfType(PEER_JOINED)) = 1
    /\ last.op = "removePeer" => Len(LogOfType(PEER_LEFT)) = 1

\* the step handles a message of an unknown type or without a clock
HandlesMalformed ==
    /\ last'.op = "handleMessage"
    /\ \/ last'.arg.type \notin MessageType
       \/ "vectorClock" \notin DOMAIN last'.arg

\* C27: malformed inbound messages are dropped silently: handleMessage on a
\* message with an unknown type or with a missing clock raises no error,
\* emits no event or outbound message, and leaves local clock, local state,
\* peer clocks and peer snapshots unchanged.
C27_MalformedDroppedSilently ==
    [][HandlesMalformed =>
          /\ log' = << >>
          /\ localClock' = localClock
          /\ localState' = localState
          /\ peerClocks' = peerClocks
          /\ peerStates' = peerStates]_vars

\* a message of an unknown type, for one, is dropped without a trace
UnknownTypeDropped ==
    [][last'.op = "handleMessage" /\ last'.arg.type \notin MessageType =>
          /\ log' = << >>
          /\ localClock' = localClock
          /\ localState' = localState
          /\ peerClocks' = peerClocks
          /\ peerStates' = peerStates]_vars

\* the strategies resolveConflict has a case for
Implemented == {VECTOR_CLOCK, LAST_WRITE_WINS}

\* C28: an invalid or unsupported conflict-resolution strategy selection (any
\* value other than the two implemented strategies, e.g. CUSTOM) makes engine
\* construction fail immediately: no engine exists that was constructed with
\* one, and none resolves a conflict under one.
C28_UnsupportedStrategyRejected ==
    /\ conflictResolution \in Implemented
    /\ LogOfType(CONFLICT_RESOLVED) # << >> => conflictResolution \in Implemented

\* destroy() has been called: nothing else clears the timer, and nothing
\* starts it again
Destroyed == ~syncTimer

\* C29: after destroy() returns no further periodic CLOCK_SYNC tick starts,
\* the peer clock and snapshot maps and known-peer set are empty, and calling
\* destroy() again any number of times raises no error and changes nothing.
C29_DestroyStopsAndClears ==
    [][/\ Destroyed => Destroyed' /\ last'.op # "syncWithPeers"
       /\ last'.op = "destroy" =>
             /\ Destroyed'
             /\ peerClocks' = EmptyMap
             /\ peerStates' = EmptyMap
             /\ peers' = << >>
             /\ log' = << >>
       /\ last.op = "destroy" /\ last'.op = "destroy" =>
             /\ localClock' = localClock
             /\ localState' = localState
             /\ peerClocks' = peerClocks
             /\ peerStates' = peerStates
             /\ peers' = peers
             /\ syncTimer' = syncTimer
             /\ listeners' = listeners]_vars

\* destroy() on an engine that had written and had heard from a peer
C29_Witness ==
    /\ last.op = "destroy"
    /\ Destroyed
    /\ localState = [x |-> 1]
    /\ localClock = [me |-> 1, p |-> 1]
    /\ peers = << >>
    /\ peerClocks = EmptyMap

\* the step is a call of one of the listeners registered with the mesh
MeshNotifies ==
    last'.op \in {"mesh:peerDiscovered", "mesh:peerConnected",
                  "mesh:peerDisconnected", "mesh:messageReceived"}

\* C30: after destroy() returns, the engine holds no live link to the
\* transport collaborator: for an engine constructed with a mesh, later mesh
\* notifications (peerDiscovered, peerConnected, peerDisconnected,
\* messageReceived) no longer change engine state and the engine no longer
\* invokes the mesh's send capability.
C30_DestroyDetachesMesh ==
    [][Destroyed =>
          /\ MeshNotifies =>
                /\ localClock' = localClock
                /\ localState' = localState
                /\ peerClocks' = peerClocks
                /\ peerStates' = peerStates
                /\ peers' = peers
          /\ \A i \in 1..Len(log') :
                log'[i].type \notin {MESH_SEND_DIRECT, MESH_SEND}]_vars

(***************************************************************************)
(* C31: the clock stored for a peer belongs to the engine alone: once      *)
(* addPeer(P) has seeded it, getPeerVectorClock(P) changes only by a       *)
(* message from P, by removePeer(P) or by another addPeer(P), and never by *)
(* what the caller does to the clock object it passed in.                  *)
(***************************************************************************)
StoredClockWrittenBy(id) ==
    \/ last.op = "handleMessage" /\ last.arg.from = id
    \/ last.op \in {"addPeer", "removePeer"} /\ last.arg.id = id

C31_SeedClockOwnedByEngine ==
    [][\A id \in Remote :
          GetPeerVectorClock(Engine, id)' # GetPeerVectorClock(Engine, id)
              => StoredClockWrittenBy(id)']_vars

(***************************************************************************)
(* C35: the handling of one conflicting state-bearing message from P emits *)
(* ConflictDetected, ConflictResolved and StateChanged(P), in this order   *)
(* and once each, and when ConflictResolved is emitted the local state and *)
(* the local clock already are the resolved state and clock it carries.    *)
(***************************************************************************)
EventTypes == [i \in 1..Len(log) |-> log[i].type]

ConflictEventsInOrder ==
    /\ EventTypes = <<CONFLICT_DETECTED, CONFLICT_RESOLVED, STATE_UPDATED>>
    /\ log[3].data.peerId = last.arg.from

ResolvedAsObserved ==
    \A i \in 1..Len(log) :
        log[i].type = CONFLICT_RESOLVED =>
            /\ log[i].localState = log[i].data.resolvedState
            /\ log[i].localClock = log[i].data.vectorClock

C35_ConflictEventsOrderedAndApplied ==
    (StateBearing /\ ConflictDeclared) =>
        /\ ConflictEventsInOrder
        /\ ResolvedAsObserved

\* the order of the three events alone
ConflictEventsOrdered ==
    (StateBearing /\ ConflictDeclared) => ConflictEventsInOrder

(***************************************************************************)
(* C36: whenever conflict resolution runs, every counter of the local      *)
(* candidate's clock is at least the remote candidate's: the local clock   *)
(* strictly dominates the remote clock or has the same counters, and the   *)
(* two are never causally incomparable.                                    *)
(***************************************************************************)
SameCounters(a, b) == \A k \in AllIds : Counter(a, k) = Counter(b, k)

C36_LocalCandidateCoversRemote ==
    (StateBearing /\ ConflictDeclared) =>
        LET remote == Candidates[1].vectorClock
            local == Candidates[2].vectorClock
        IN  /\ Candidates[1].peerId = last.arg.from
            /\ Candidates[2].peerId = LocalId
            /\ \A k \in AllIds : Counter(local, k) >= Counter(remote, k)
            /\ Dominates(local, remote) \/ SameCounters(local, remote)

\* a conflict whose local candidate is strictly ahead of the remote one in a
\* counter the message raised no further than the engine already had it
C36_Witness ==
    /\ StateBearing
    /\ ConflictDeclared
    /\ Candidates[1].vectorClock = [p |-> 1]
    /\ Candidates[2].vectorClock = [me |-> 1, p |-> 1]
    /\ last.existingClock = {[me |-> 1]}

(***************************************************************************)
(* C37: when a conflict is declared for a message from P, the snapshot     *)
(* stored for P stays as it was (the payload accepted before, or none)     *)
(* while the clock stored for P becomes the message's clock; P's snapshot  *)
(* changes only on a state-bearing message from P that does not conflict   *)
(* and on removePeer(P).                                                   *)
(***************************************************************************)
\* the last operation handled a state-bearing message from id, delivered
\* by the application or by the mesh
StateBearingFrom(id) ==
    /\ last.op \in {"handleMessage", "mesh:messageReceived"}
    /\ last.arg.type \in {STATE_UPDATE, STATE_RESPONSE}
    /\ last.arg.from = id
    /\ Len(LogOfType(STATE_UPDATED)) = 1

\* the last operation was removePeer(id), called by the application or by
\* the listener for 'peerDisconnected'
RemovalOf(id) ==
    /\ last.op \in {"removePeer", "mesh:peerDisconnected"}
    /\ last.arg.id = id

SnapshotKeptOnConflict ==
    \A id \in Remote :
        (StateBearingFrom(id)' /\ ConflictDeclared') =>
            /\ GetPeerState(Engine, id)' = GetPeerState(Engine, id)
            /\ GetPeerVectorClock(Engine, id)' = {last'.clock}

C37_SnapshotOnlyByAcceptOrRemoval ==
    [][/\ SnapshotKeptOnConflict
       /\ \A id \in Remote :
             GetPeerState(Engine, id)' # GetPeerState(Engine, id) =>
                 \/ StateBearingFrom(id)' /\ ~ConflictDeclared'
                 \/ RemovalOf(id)']_vars

\* C37, amended: as above, and destroy() too changes the snapshots: it
\* clears them all.
C37_SnapshotOnlyByAcceptRemovalOrDestroy ==
    [][/\ SnapshotKeptOnConflict
       /\ \A id \in Remote :
             GetPeerState(Engine, id)' # GetPeerState(Engine, id) =>
                 \/ StateBearingFrom(id)' /\ ~ConflictDeclared'
                 \/ RemovalOf(id)'
                 \/ last'.op = "destroy"]_vars

\* a conflict was declared for p's {x: 2} and p's snapshot is still the
\* {y: 1} accepted before, under the clock of the conflicting message
C37_Witness ==
    /\ StateBearingFrom("p")
    /\ ConflictDeclared
    /\ last.arg.payload = [x |-> 2]
    /\ GetPeerState(Engine, "p") = {[y |-> 1]}
    /\ GetPeerVectorClock(Engine, "p") = {last.clock}
    /\ last.clock = [me |-> 1, p |-> 1]

(***************************************************************************)
(* C38: delivering the same STATE_UPDATE (same sender, payload and clock)  *)
(* twice in succession is idempotent: the second delivery leaves the local *)
(* state, the local clock and the clock and snapshot stored for the sender *)
(* as the first left them, and emits no ConflictDetected.                  *)
(***************************************************************************)
\* the step delivers again the STATE_UPDATE the step before delivered
Redelivery ==
    /\ last.op = "handleMessage"
    /\ last.arg.type = STATE_UPDATE
    /\ last'.op = "handleMessage"
    /\ last'.arg = last.arg

C38_DuplicateDeliveryIdempotent ==
    [][Redelivery =>
          /\ localState' = localState
          /\ localClock' = localClock
          /\ peerClocks' = peerClocks
          /\ peerStates' = peerStates
          /\ ~ConflictDeclared']_vars

\* the part of it that the stored maps satisfy
RedeliveryKeepsStored ==
    [][Redelivery => peerClocks' = peerClocks /\ peerStates' = peerStates]_vars

(***************************************************************************)
(* MatchmakingEngine                                                       *)
(***************************************************************************)
MatchLogTypes == [i \in 1..Len(matchLog) |-> matchLog[i].type]

MatchSizesWithinBounds ==
    \A matchId \in DOMAIN matches :
        /\ Len(matches[matchId].peers) <= config.maxPeers
        /\ Len(matches[matchId].peers) >= config.minPeers

\* the step is addPeer on an engine without criteria, and what it does about
\* a match: enough is whether the queue, the new peer in it, holds minPeers
AddPeerMatchesIffEnough ==
    LET enough == Len(matchQueue) + 1 >= config.minPeers
    IN  IF enough
        THEN /\ matchCounter' = matchCounter + 1
             /\ DOMAIN matches' = DOMAIN matches \cup {matchCounter'}
             /\ MatchLogTypes' = <<PEER_JOINED, MATCH_FOUND, MATCH_READY>>
             /\ matchLog'[2].data = matches'[matchCounter']
             /\ matchLog'[3].data = matches'[matchCounter']
        ELSE /\ matches' = matches
             /\ matchCounter' = matchCounter
             /\ MatchLogTypes' = <<PEER_JOINED>>

\* C32: on a MatchmakingEngine with empty matchCriteria, addPeer creates a
\* match in the same call, emitting MATCH_FOUND then MATCH_READY, exactly
\* when the queue with the new peer in it holds at least minPeers peers;
\* with fewer, no match is created and no MATCH_FOUND is emitted.
C32_AddPeerMatchesWhenQueueFull ==
    [][(matchLast'.op = "addPeer" /\ config.matchCriteria = EmptyMap)
          => AddPeerMatchesIffEnough]_vars

\* C32, amended: the same on an engine whose minPeers is at most its
\* maxPeers.
C32_AddPeerMatchesWhenQueueFullAndSizesSane ==
    [][(/\ matchLast'.op = "addPeer"
        /\ config.matchCriteria = EmptyMap
        /\ config.minPeers <= config.maxPeers)
          => AddPeerMatchesIffEnough]_vars

\* addPeer has just made a match of three on an engine without criteria
C32_Witness ==
    /\ matchLast.op = "addPeer"
    /\ config.matchCriteria = EmptyMap
    /\ config.minPeers <= config.maxPeers
    /\ MatchLogTypes = <<PEER_JOINED, MATCH_FOUND, MATCH_READY>>
    /\ Len(matches[matchCounter].peers) = 3
    /\ matchQueue = << >>

\* seg is a run of consecutive entries of list
IsSegment(seg, list) ==
    \E k \in 0..(Len(list) - Len(seg)) : SubSeq(list, k + 1, k + Len(seg)) = seg

\* what is left of a match once the first entry of peerId is taken out
Remaining(matchId, peerId) == SpliceFirst(matches[matchId].peers, peerId)

\* the step is removePeer(peerId) for a tracked peer: every match it brings
\* below minPeers is gone, a MATCH_DISBANDED names it, and those of its
\* remaining peers that are still tracked stand in the queue
ShrunkMatchesDisbanded(peerId) ==
    \A matchId \in DOMAIN matches :
        (/\ FindIndex(matches[matchId].peers, peerId) # 0
         /\ Len(Remaining(matchId, peerId)) < config.minPeers) =>
            /\ matchId \notin DOMAIN matches'
            /\ \E n \in 1..Len(matchLog') :
                  /\ matchLog'[n].type = MATCH_DISBANDED
                  /\ matchLog'[n].data.id = matchId
            /\ IsSegment(SelectSeq(Remaining(matchId, peerId),
                                   LAMBDA p : p.id \in DOMAIN matchPeers'),
                         matchQueue')

\* C33: after every MatchmakingEngine operation each active match holds at
\* most maxPeers and at least minPeers peers; a match that removePeer
\* brings below minPeers is disbanded, MATCH_DISBANDED is emitted for it and
\* its remaining tracked peers go back to the queue.
C33_MatchSizesKept ==
    [][/\ MatchSizesWithinBounds'
       /\ \A peerId \in MatchPeerIds :
             (/\ matchLast'.op = "removePeer"
              /\ matchLast'.arg = peerId
              /\ peerId \in DOMAIN matchPeers) => ShrunkMatchesDisbanded(peerId)]_vars

\* removePeer has just disbanded a match and put a peer of it back in the
\* queue, while another match is still active
C33_Witness ==
    /\ matchLast.op = "removePeer"
    /\ matchLast.result = TRUE
    /\ MatchLogTypes = <<MATCH_DISBANDED, PEER_LEFT>>
    /\ Len(matchLog[1].data.peers) = 1
    /\ matchQueue = matchLog[1].data.peers
    /\ DOMAIN matches # {}

\* the PEER_LEFT events of the last call
PeerLeftEvents == SelectSeq(matchLog, LAMBDA ev : ev.type = PEER_LEFT)

\* the step is removePeer(peerId): what it returns, emits and leaves behind,
\* except for the queue
RemovePeerAnswers(peerId) ==
    IF peerId \notin DOMAIN matchPeers
    THEN /\ matchLast'.result = FALSE
         /\ matchLog' = << >>
         /\ UNCHANGED <<matchPeers, matchQueue, matches>>
    ELSE /\ matchLast'.result = TRUE
         /\ matchPeers' = MapDelete(matchPeers, peerId)
         /\ Len(PeerLeftEvents') = 1
         /\ PeerLeftEvents'[1].data = matchPeers[peerId]

\* C34: removePeer(id) for an id that is not tracked returns false, emits
\* nothing and leaves peers, queue and matches as they are; for a tracked id
\* it returns true, takes the peer out of the peer map and out of the queue,
\* and emits PEER_LEFT exactly once.
C34_RemovePeerResult ==
    [][\A peerId \in MatchPeerIds :
          (matchLast'.op = "removePeer" /\ matchLast'.arg = peerId) =>
              /\ RemovePeerAnswers(peerId)
              /\ peerId \in DOMAIN matchPeers =>
                    FindIndex(matchQueue', peerId) = 0]_vars

\* all of it but the queue
RemovePeerResultBesidesQueue ==
    [][\A peerId \in MatchPeerIds :
          (matchLast'.op = "removePeer" /\ matchLast'.arg = peerId) =>
              RemovePeerAnswers(peerId)]_vars

\* how many entries of list are peerId's
Entries(list, peerId) == Len(SelectSeq(list, LAMBDA p : p.id = peerId))

\* the same, summed over the member lists of the matches in matchIds
RECURSIVE EntriesInMatches(_, _)
EntriesInMatches(matchIds, peerId) ==
    IF matchIds = {} THEN 0
    ELSE LET matchId == CHOOSE x \in matchIds : TRUE
         IN  Entries(matches[matchId].peers, peerId)
                 + EntriesInMatches(matchIds \ {matchId}, peerId)

\* how often peerId stands in the queue and in the active matches
Placements(peerId) ==
    Entries(matchQueue, peerId) + EntriesInMatches(DOMAIN matches, peerId)

EveryPeerPlacedOnce ==
    \A peerId \in MatchPeerIds :
        Placements(peerId) = (IF peerId \in DOMAIN matchPeers THEN 1 ELSE 0)

\* C39: whatever addPeer, removePeer and disbandMatch calls were made, with
\* ids added again and with criteria or without, every peer id in the peer
\* map stands exactly once in the queue and the active matches taken
\* together, and no other id stands there.
C39_EveryPeerPlacedOnce ==
    matchLast.op \in {"addPeer", "removePeer", "disbandMatch"} =>
        EveryPeerPlacedOnce

\* without criteria, a call other than addPeer for an id already tracked
\* keeps every peer placed once
PlacedOnceKeptBarringReadd ==
    [][(/\ EveryPeerPlacedOnce
        /\ config.matchCriteria = EmptyMap
        /\ ~(matchLast'.op = "addPeer" /\ matchLast'.arg \in DOMAIN matchPeers))
          => EveryPeerPlacedOnce']_vars

\* C40: with empty matchCriteria and minPeers at most maxPeers no group
\* that could be matched is left waiting: after every addPeer, removePeer
\* or disbandMatch call the queue holds fewer than minPeers peers.
C40_NoMatchableGroupWaits ==
    (/\ matchLast.op \in {"addPeer", "removePeer", "disbandMatch"}
     /\ config.matchCriteria = EmptyMap
     /\ config.minPeers <= config.maxPeers)
        => Len(matchQueue) < config.minPeers

\* addPeer by itself leaves no such group: it empties a queue that was
\* short of minPeers before the call and reaches it
AddPeerLeavesQueueShort ==
    [][(/\ matchLast'.op = "addPeer"
        /\ config.matchCriteria = EmptyMap
        /\ config.minPeers <= config.maxPeers
        /\ Len(matchQueue) < config.minPeers)
          => Len(matchQueue') < config.minPeers]_vars

====
